---------------------------- MODULE Spec2Model ----------------------------
(***************************************************************************)
(* A model of chainbound/fiber-benchmarks: the transaction benchmark of    *)
(* src/main.go (TransactionBenchmarker.Run, runInterval,                   *)
(* processIntervalResults, buildObservationStats, printStats) together     *)
(* with the two sinks that main.go's setupSink can build (ClickhouseSink   *)
(* and CsvSink, both in src/main.go).                                      *)
(*                                                                         *)
(* float64 values are modelled as exact rationals [num, den] in lowest     *)
(* terms with den > 0; NaN is [num |-> 0, den |-> 0].  Timestamps are      *)
(* microseconds read from a clock `now`; they are non-negative and far     *)
(* below 2^62 in the program, so otherTs - fiberTs never wraps in int64.   *)
(***************************************************************************)
EXTENDS Integers, Sequences, FiniteSets, TLC

\* ------------------------------------------------------------------ bounds
NumHashes == 2        \* distinct transaction hashes the sources deliver
MaxClock == 2         \* number of values the clock takes
ClockStart == 1000    \* the clock's first value, in microseconds
ClockStep == 500      \* the distance between two values of the clock
ChanCap == 2          \* modelled capacity of an observation channel
MaxSends == 2         \* observations the two sources produce during the run
MaxPayloads == 1      \* execution payloads the fiber source produces
MaxIntervals == 2     \* largest --interval-count
MaxSendFailures == 1  \* failing driver calls (batch.Send, PrepareBatch) during the run
MaxLen == 3           \* longest difference list handed to the aggregator alone
MaxHalfMs == 2        \* those differences are k * 0.5 ms, |k| <= MaxHalfMs
MaxClosedReads == 2   \* receives from the closed fiber channel in one interval
MaxBlockReads == 3    \* block observations received during a block benchmark
MaxMsgs == 2          \* WebSocket messages one Bloxroute subscription reads

Hashes == 1..NumHashes
Clock == {ClockStart + ClockStep * k : k \in 0..(MaxClock - 1)}

\* ------------------------------------------------------- float64 arithmetic
Abs(x) == IF x < 0 THEN -x ELSE x

RECURSIVE GCD(_, _)
GCD(a, b) == IF b = 0 THEN a ELSE GCD(b, a % b)

NaN == [num |-> 0, den |-> 0]

\* n / d for d > 0, in lowest terms
Rat(n, d) == LET g == GCD(Abs(n), d) IN [num |-> n \div g, den |-> d \div g]

IsNaN(x) == x.den = 0

\* float64(a) / float64(b) for integers a, b >= 0 (0/0 is NaN; b = 0 < a does
\* not occur in the program: the divisor is a + something non-negative)
FloatDiv(a, b) == IF b = 0 THEN NaN ELSE Rat(a, b)

RatAdd(x, y) == Rat(x.num * y.den + y.num * x.den, x.den * y.den)
RatDivInt(x, k) == Rat(x.num, x.den * k)
RatLess(x, y) == x.num * y.den < y.num * x.den
RatGtZero(x) == x.den > 0 /\ x.num > 0

\* float64(microDiff / 1000): the integer division done before the conversion
MilliTruncated(microDiff) ==
    Rat(IF microDiff >= 0 THEN microDiff \div 1000 ELSE -((-microDiff) \div 1000), 1)

\* float64(microDiff) / 1000
Milli(microDiff) == Rat(microDiff, 1000)

\* --------------------------------------- github.com/montanaflynn/stats v0.7
\* Every function returns [val, err]; err = "nil" on success.
Ok(v) == [val |-> v, err |-> "nil"]
Fail(e) == [val |-> NaN, err |-> e]

RECURSIVE SumSeq(_)
SumSeq(s) == IF s = <<>> THEN Rat(0, 1) ELSE RatAdd(Head(s), SumSeq(Tail(s)))

RECURSIVE Insert(_, _)
Insert(x, s) ==
    IF s = <<>> THEN <<x>>
    ELSE IF RatLess(x, Head(s)) THEN <<x>> \o s
    ELSE <<Head(s)>> \o Insert(x, Tail(s))

RECURSIVE sortedCopy(_)
sortedCopy(s) == IF s = <<>> THEN <<>> ELSE Insert(Head(s), sortedCopy(Tail(s)))

Mean(input) ==
    IF Len(input) = 0 THEN Fail("EmptyInputErr")
    ELSE Ok(RatDivInt(SumSeq(input), Len(input)))

Min(input) ==
    IF Len(input) = 0 THEN Fail("EmptyInputErr") ELSE Ok(sortedCopy(input)[1])

Max(input) ==
    IF Len(input) = 0 THEN Fail("EmptyInputErr")
    ELSE Ok(sortedCopy(input)[Len(input)])

Median(input) ==
    LET c == sortedCopy(input)
        l == Len(c)
    IN  IF l = 0 THEN Fail("EmptyInputErr")
        ELSE IF l % 2 = 0 THEN Mean(<<c[l \div 2], c[(l \div 2) + 1]>>)
        ELSE Ok(c[(l \div 2) + 1])

\* index = (percent / 100) * len: whole iff 100 divides percent * len
Percentile(input, percent) ==
    LET length == Len(input)
        c == sortedCopy(input)
        whole == (percent * length) % 100 = 0
        i == (percent * length) \div 100
    IN  IF length = 0 THEN Fail("EmptyInputErr")
        ELSE IF length = 1 THEN Ok(input[1])
        ELSE IF percent <= 0 \/ percent > 100 THEN Fail("BoundsErr")
        ELSE IF whole THEN Ok(c[i])
        ELSE IF percent * length > 100 THEN Mean(<<c[i], c[i + 1]>>)
        ELSE Fail("BoundsErr")


\* ------------------------------------------------- the Statistics Aggregator
Percentiles == <<1, 5, 10, 15, 20, 25, 30, 35, 40, 45, 50, 55, 60, 65, 70, 75,
                 80, 85, 90, 95, 99>>

PercentileSet == {Percentiles[k] : k \in 1..Len(Percentiles)}

Zero == Rat(0, 1)

\* types.ObservationStatsRow{}: every float64 field is 0
EmptyRow == [FiberWon |-> Zero, Mean |-> Zero, Min |-> Zero, Max |-> Zero,
             P |-> [p \in PercentileSet |-> Zero]]

\* for _, diff := range differences { if diff > 0 { fiberWon++ } else { blxrWon++ } }
RECURSIVE CountWon(_)
CountWon(differences) ==
    IF differences = <<>> THEN [fiberWon |-> 0, blxrWon |-> 0]
    ELSE LET rest == CountWon(Tail(differences))
         IN  IF RatGtZero(Head(differences))
             THEN [rest EXCEPT !.fiberWon = @ + 1]
             ELSE [rest EXCEPT !.blxrWon = @ + 1]

\* the first failing call among stats.Mean, Min, Max, Percentile(1), ..., (99)
FirstPercentileErr(differences) ==
    LET bad == {k \in 1..Len(Percentiles) :
                   Percentile(differences, Percentiles[k]).err # "nil"}
    IN  IF bad = {} THEN "nil"
        ELSE LET k == CHOOSE j \in bad : \A m \in bad : j <= m
             IN  Percentile(differences, Percentiles[k]).err

buildObservationStats(differences) ==
    LET won == CountWon(differences)
        mean == Mean(differences)
        min == Min(differences)
        max == Max(differences)
        perr == FirstPercentileErr(differences)
    IN  IF mean.err # "nil" THEN [row |-> EmptyRow, err |-> mean.err]
        ELSE IF min.err # "nil" THEN [row |-> EmptyRow, err |-> min.err]
        ELSE IF max.err # "nil" THEN [row |-> EmptyRow, err |-> max.err]
        ELSE IF perr # "nil" THEN [row |-> EmptyRow, err |-> perr]
        ELSE [row |-> [FiberWon |-> FloatDiv(won.fiberWon, won.fiberWon + won.blxrWon),
                       Mean |-> mean.val, Min |-> min.val, Max |-> max.val,
                       P |-> [p \in PercentileSet |-> Percentile(differences, p).val]],
              err |-> "nil"]

\* What printStats logs.  errors: the "Failed to calculate ..." lines, in
\* order (stats.StandardDeviation fails exactly when stats.Mean does; its
\* value, a square root, is not modelled).
printStats(differences) ==
    LET won == CountWon(differences)
        mean == Mean(differences)
        median == Median(differences)
        min == Min(differences)
        max == Max(differences)
        failed(r, what) == IF r.err # "nil" THEN <<what>> ELSE <<>>
    IN  [Mean |-> mean.val, Median |-> median.val, Min |-> min.val, Max |-> max.val,
         wonRatio |-> FloatDiv(won.fiberWon, won.fiberWon + won.blxrWon),
         errors |-> failed(mean, "mean") \o failed(median, "median")
                    \o failed(mean, "stdev") \o failed(min, "min")
                    \o failed(max, "max")]

\* a value that has not been computed or printed yet is <<>>, one that has
\* been is <<value>>
None == <<>>

Some(v) == <<v>>

\* ------------------------------------------------------------------- state
VARIABLES
    crossCheck,           \* config.crossCheck
    logMissing,           \* config.logMissing
    sink,                 \* config.sink: setupSink builds b.sink from it
    intervalCount,        \* config.intervalCount
    otherConfigured,      \* config.blxrEndpoint != "" && config.blxrKey != ""
    opened,               \* the connections and subscriptions made so far
    now,                  \* the wall clock, in microseconds
    fiberStream,          \* buffered chan types.Observation of the fiber source
    otherStream,          \* buffered chan types.Observation of the other source
    payloadStream,        \* unbuffered chan: the payload its sender is offering
    produced,             \* how many items each source has produced
    known,                \* the hashes 1..known have appeared so far
    fiberDone,            \* FiberSource.done is closed
    shutdown,             \* the fiber source's client, the channels closed so
                          \* far and a panic in one of its goroutines
    pc,                   \* where Run is
    i,                    \* Run's loop variable
    timerFired,           \* timer.C holds the interval's tick
    fiberMap,             \* runInterval's locals
    otherMap,
    truthMap,
    reads,                \* history: what the current interval's loop received
    logger,               \* the log lines of the current interval, in order
    differences,          \* processIntervalResults' locals and outputs
    diffMap,
    printed,              \* what the interval printed: totals and printStats
    stats,                \* runInterval's result in Run: [row, err]
    observationRowBatch,  \* ClickhouseSink: [rows, sent, nil]
    statsBatch,
    tables,               \* the rows the Clickhouse server has received
    flusher,              \* where the two goroutines of Flush are, Flush's
                          \* local err, which both assign, and the number
                          \* of failed PrepareBatch calls so far
    wg,                   \* Flush's sync.WaitGroup counter
    sendFailures,         \* failed batch.Send() calls so far
    obsWriter,            \* CsvSink.obsWriter: the records written to it
    blxr,                 \* a BloxrouteSource, its goroutines and its channels
    fiberSrc,             \* a FiberSource, its goroutines and its channels
    legacy,               \* the single-shot program of unnamed/part_003
    blockBench            \* the block benchmark of unnamed/part_001

vars == <<crossCheck, logMissing, sink, intervalCount, otherConfigured,
          opened, now, fiberStream,
          otherStream, payloadStream, produced, known, fiberDone, shutdown, pc, i, timerFired,
          fiberMap,
          otherMap, truthMap, reads, logger, differences, diffMap, printed,
          stats, observationRowBatch, statsBatch, tables, flusher, wg,
          sendFailures, obsWriter, blxr, fiberSrc, legacy, blockBench>>

\* the components that are modelled on their own
componentVars == <<blxr, fiberSrc, legacy, blockBench>>

configVars == <<crossCheck, logMissing, sink, intervalCount, otherConfigured>>
sourceVars == <<now, fiberStream, otherStream, payloadStream, produced, known,
               fiberDone, shutdown>>
intervalVars == <<timerFired, fiberMap, otherMap, truthMap, reads>>
resultVars == <<differences, diffMap, printed, stats>>
clickhouseVars == <<observationRowBatch, statsBatch, tables, flusher, wg,
                    sendFailures>>

\* "stdout" is accepted by config.validate too; setupSink treats it as "none"
SinkKinds == {"none", "clickhouse", "csv"}

\* what runTransactionBenchmark and Run open: the fiber connection, and the
\* three subscriptions of Run
AllOpened == {"fiber", "fiberTxs", "otherTxs", "payloads"}

\* setupSink: b.sink is the nil interface for "none" (and "stdout")
SinkIsNil == sink = "none"

\* the fiber source while Run's loop runs: the client is connected, no
\* goroutine has panicked, and none of its channels is closed: "txs" is the
\* channel that SubscribeTransactions returns to the observation goroutine,
\* "payloads" the payload channel, "hash" the observation channel (hashCh)
NoShutdown == [client |-> "open", closed |-> {}, panic |-> "none"]

\* make(map[common.Hash]...)
EmptyMap == [h \in {} |-> 0]

\* a fresh driver.Batch from chConn.PrepareBatch
FreshBatch == [rows |-> <<>>, sent |-> FALSE, nil |-> FALSE]

\* the nil driver.Batch that a failing chConn.PrepareBatch returns
NilBatch == [rows |-> <<>>, sent |-> FALSE, nil |-> TRUE]

\* no Flush is running: both goroutines are idle, err is nil
FlushIdle == [obs |-> "idle", stats |-> "idle", err |-> "nil", failed |-> 0]

\* the two WebSocket subscriptions of a BloxrouteSource
Readers == {"txs", "blocks"}

\* NewBloxrouteSource: endpoint, key and dialer are set; done is left nil.
\* No subscription is made: no connection, no channel, no goroutine.
NewBloxrouteSource ==
    [done |-> "nil",
     reader |-> [r \in Readers |->
                    [pc |-> "none", ch |-> "none", sub |-> "none", msg |-> <<>>,
                     read |-> 0]],
     received |-> [r \in Readers |-> <<>>],
     log |-> <<>>,
     dropped |-> <<>>,
     close |-> "none",
     panic |-> "none"]

\* the two subscriptions of a FiberSource
Streams == {"txs", "payloads"}

\* NewFiberSource: the client and `done: make(chan struct{})`.  Nothing is
\* subscribed: no channel and no goroutine.
NewFiberSource ==
    [done |-> "open",
     clientClosed |-> FALSE,
     ch |-> [c \in Streams |-> "none"],
     sender |-> [c \in Streams |-> [pc |-> "none", msg |-> <<>>, sent |-> 0]],
     closer |-> [c \in Streams |-> "none"],
     observer |-> [pc |-> "none", rev |-> "none", held |-> <<>>],
     hashCh |-> [buf |-> <<>>, closed |-> FALSE],
     consumed |-> <<>>,
     close |-> "none",
     closeErr |-> "none",
     panic |-> "none"]

\* the single-shot program before main: `var blxrMap = make(...)`, `var
\* fiberMap = make(...)`, no goroutine, the clock at its first value (in
\* milliseconds)
LegacyProgram ==
    [pc |-> "main",
     ctx |-> [fiber |-> "live", blxr |-> "live"],
     fiber |-> [pc |-> "none", offered |-> <<>>, delivered |-> 0],
     blxr |-> [pc |-> "none", read |-> 0],
     fiberMap |-> EmptyMap,
     blxrMap |-> EmptyMap,
     clock |-> 1,
     log |-> <<>>,
     out |-> <<>>]

\* &ClickhouseSink{cfg, chConn, log}: ty is the empty InitType and the four
\* batches are nil
NewClickhouseClient ==
    [ty |-> "", observationRowBatch |-> NilBatch, statsBatch |-> NilBatch,
     blockObservationRowBatch |-> NilBatch, blockStatsBatch |-> NilBatch]

\* the block benchmark before runBlockBenchmark: no config read, no sink
\* set up (no csv file written, no Clickhouse batch prepared), no interval
\* run.  stats is the (stats, err) that Run got from runInterval.
BlockProgram ==
    [pc |-> "main", sink |-> "none", logMissing |-> FALSE, intervalCount |-> 0,
     i |-> 0, timerFired |-> FALSE, fiberMap |-> EmptyMap, otherMap |-> EmptyMap,
     reads |-> 0, log |-> <<>>, differences |-> <<>>, diffMap |-> EmptyMap,
     printed |-> <<>>, stats |-> <<>>, obsWriter |-> <<>>, statsWriter |-> <<>>,
     ch |-> NewClickhouseClient, panic |-> "none"]

\* every component is as its constructor leaves it
ComponentsIdle ==
    /\ blxr = NewBloxrouteSource
    /\ fiberSrc = NewFiberSource
    /\ legacy = LegacyProgram
    /\ blockBench = BlockProgram

\* the header NewCsvSink writes to the observations file
ObservationsHeader ==
    [header |-> <<"tx_hash", "fiber_timestamp", "other_timestamp", "diff", "from",
                  "to", "calldata_size">>]

\* NewCsvSink: the observations file holds its header; with another sink
\* there is no CsvSink
NewCsvSink == IF sink = "csv" THEN <<ObservationsHeader>> ELSE <<>>

Perms(S) == {f \in [1..Cardinality(S) -> S] : \A a, b \in DOMAIN f : f[a] = f[b] => a = b}

Init ==
    /\ crossCheck \in BOOLEAN
    /\ logMissing \in BOOLEAN
    /\ sink \in SinkKinds
    /\ intervalCount \in 0..MaxIntervals
    /\ otherConfigured = TRUE
    /\ opened = AllOpened
    /\ now = ClockStart
    /\ fiberStream = <<>>
    /\ otherStream = <<>>
    /\ payloadStream = <<>>
    /\ produced = [fiber |-> 0, other |-> 0, payload |-> 0]
    /\ known = 0
    /\ fiberDone = FALSE
    /\ shutdown = NoShutdown
    /\ pc = "start"
    /\ i = 0
    /\ timerFired = FALSE
    /\ fiberMap = EmptyMap
    /\ otherMap = EmptyMap
    /\ truthMap = {}
    /\ reads = [fiber |-> <<>>, other |-> <<>>, payload |-> <<>>]
    /\ logger = <<>>
    /\ differences = <<>>
    /\ diffMap = EmptyMap
    /\ printed = None
    /\ stats = None
    /\ observationRowBatch = FreshBatch
    /\ statsBatch = FreshBatch
    /\ tables = [confirmed_observations |-> <<>>, observation_stats |-> <<>>]
    /\ flusher = FlushIdle
    /\ wg = 0
    /\ sendFailures = 0
    /\ obsWriter = NewCsvSink
    /\ ComponentsIdle

\* ----------------------------------------------------------------- sources
\* the process is alive and Run has made its first subscription, whose
\* goroutines run from then on; a source sends once it is subscribed
Running == pc \notin {"done", "panic", "aggregate", "validate", "connect",
                       "subscribe", "fatal", "exit"}

\* types.Observation{Hash: h, Timestamp: time.Now().UnixMicro()}: the clock
\* has not gone back since it was last read
Observation(h, t) == [Hash |-> h, Timestamp |-> t]

Later == {t \in Clock : t >= now}

\* Hashes are opaque: the transactions are numbered in the order in which
\* they first appear in any stream
NextHashes == {h \in Hashes : h <= known + 1}

NextBlocks == {txs \in SUBSET Hashes : \A h \in txs : h > known + 1 => h - 1 \in txs}

Newest(hs) == IF \E h \in hs : h > known THEN CHOOSE h \in hs : \A g \in hs : g <= h
              ELSE known

\* FiberSource.SubscribeTransactionObservations: hashCh <- types.Observation{...}
FiberSend ==
    /\ Running
    /\ "fiberTxs" \in opened
    /\ shutdown.client = "open"
    /\ "hash" \notin shutdown.closed
    /\ produced.fiber + produced.other < MaxSends
    /\ Len(fiberStream) < ChanCap
    /\ \E h \in NextHashes, t \in Later :
          /\ fiberStream' = Append(fiberStream, Observation(h, t))
          /\ now' = t
          /\ known' = Newest({h})
    /\ produced' = [produced EXCEPT !.fiber = @ + 1]
    /\ UNCHANGED <<configVars, opened, componentVars, otherStream, payloadStream, fiberDone, shutdown, pc, i,
                   intervalVars, logger, resultVars, clickhouseVars, obsWriter>>

\* BloxrouteSource.SubscribeTransactionObservations: hashCh <- types.Observation{...}
OtherSend ==
    /\ Running
    /\ "otherTxs" \in opened
    /\ produced.fiber + produced.other < MaxSends
    /\ Len(otherStream) < ChanCap
    /\ \E h \in NextHashes, t \in Later :
          /\ otherStream' = Append(otherStream, Observation(h, t))
          /\ now' = t
          /\ known' = Newest({h})
    /\ produced' = [produced EXCEPT !.other = @ + 1]
    /\ UNCHANGED <<configVars, opened, componentVars, fiberStream, payloadStream, fiberDone, shutdown, pc, i,
                   intervalVars, logger, resultVars, clickhouseVars, obsWriter>>

\* FiberSource.SubscribeExecutionPayloads: the client offers a block on the
\* unbuffered channel; Transactions is the set of its transactions' hashes
PayloadSend ==
    /\ Running
    /\ "payloads" \in opened
    /\ shutdown.client = "open"
    /\ "payloads" \notin shutdown.closed
    /\ produced.payload < MaxPayloads
    /\ payloadStream = <<>>
    /\ \E txs \in NextBlocks :
          /\ payloadStream' = <<[Transactions |-> txs]>>
          /\ known' = Newest(txs)
    /\ produced' = [produced EXCEPT !.payload = @ + 1]
    /\ UNCHANGED <<configVars, opened, componentVars, now, fiberStream, otherStream, fiberDone, shutdown, pc, i,
                   intervalVars, logger, resultVars, clickhouseVars, obsWriter>>

\* -------------------------------------------------------------- runInterval
\* the three maps made once, before the loop, and handed from interval to
\* interval
enterLoopKeepMaps(k) ==
    IF k < intervalCount
    THEN /\ pc' = "select"
         /\ timerFired' = FALSE
         /\ UNCHANGED <<fiberMap, otherMap, truthMap>>
         /\ reads' = [fiber |-> <<>>, other |-> <<>>, payload |-> <<>>]
         /\ logger' = <<>>
         /\ differences' = <<>>
         /\ diffMap' = EmptyMap
         /\ printed' = None
         /\ stats' = None
    ELSE /\ pc' = "done"
         /\ UNCHANGED <<intervalVars, logger, resultVars>>

\* Run's loop head `i < b.config.intervalCount` for the value k of i, and
\* runInterval up to its select: fresh maps and a new timer; after the
\* loop, "Benchmark complete"
enterLoop(k) ==
    IF k < intervalCount
    THEN /\ pc' = "select"
         /\ timerFired' = FALSE
         /\ fiberMap' = EmptyMap
         /\ otherMap' = EmptyMap
         /\ truthMap' = {}
         /\ reads' = [fiber |-> <<>>, other |-> <<>>, payload |-> <<>>]
         /\ logger' = <<>>
         /\ differences' = <<>>
         /\ diffMap' = EmptyMap
         /\ printed' = None
         /\ stats' = None
    ELSE /\ pc' = "done"
         /\ UNCHANGED <<intervalVars, logger, resultVars>>

\* Run: the streams are subscribed, i := 0
Run ==
    /\ pc = "start"
    /\ enterLoop(0)
    /\ UNCHANGED <<configVars, opened, componentVars, sourceVars, i, clickhouseVars, obsWriter>>

\* the runtime sends on timer.C once b.config.interval has elapsed
TimerFire ==
    /\ pc = "select"
    /\ ~timerFired
    /\ timerFired' = TRUE
    /\ UNCHANGED <<configVars, opened, componentVars, sourceVars, pc, i, fiberMap, otherMap, truthMap,
                   reads, logger, resultVars, clickhouseVars, obsWriter>>

\* if _, ok := m[obs.Hash]; !ok { m[obs.Hash] = obs }
storeLast(m, obs) ==
    [h \in DOMAIN m \cup {obs.Hash} |-> IF h = obs.Hash THEN obs ELSE m[h]]

storeFirst(m, obs) ==
    IF obs.Hash \in DOMAIN m THEN m
    ELSE [h \in DOMAIN m \cup {obs.Hash} |-> IF h = obs.Hash THEN obs ELSE m[h]]

\* b.logger.Warn()...Msg("Duplicate hash during interval"), in the else branch
duplicateWarning(m, obs, source) ==
    IF obs.Hash \in DOMAIN m
    THEN <<[level |-> "warn", msg |-> "Duplicate hash during interval",
            hash |-> obs.Hash, source |-> source]>>
    ELSE <<>>

\* types.Observation{}: what a receive from a closed, drained channel yields
ZeroObservation == Observation(0, 0)

\* the receives of the interval that found the fiber channel closed
ClosedReads == Len(SelectSeq(reads.fiber, LAMBDA o : o = ZeroObservation))

\* one map shared by the two sources in place of a map each: a fiber
\* observation is dropped when the other source's observation of the hash
\* has been read
FiberCaseSharedMap ==
    /\ pc = "select"
    /\ fiberStream # <<>> \/ ("hash" \in shutdown.closed /\ ClosedReads < MaxClosedReads)
    /\ LET fiberObs == IF fiberStream # <<>> THEN Head(fiberStream) ELSE ZeroObservation
       IN  /\ fiberMap' = IF fiberObs.Hash \in DOMAIN otherMap THEN fiberMap
                          ELSE storeFirst(fiberMap, fiberObs)
           /\ logger' = logger \o duplicateWarning(fiberMap, fiberObs, "fiber")
           /\ reads' = [reads EXCEPT !.fiber = Append(@, fiberObs)]
    /\ fiberStream' = IF fiberStream # <<>> THEN Tail(fiberStream) ELSE <<>>
    /\ UNCHANGED <<configVars, opened, componentVars, now, otherStream, payloadStream, produced,
                   known, fiberDone, shutdown, pc, i, timerFired, otherMap, truthMap,
                   resultVars, clickhouseVars, obsWriter>>

\* case fiberObs := <-fiberStream
\* The receive has no `ok`: once the channel is closed and drained the case
\* is always ready and yields the zero Observation.
FiberCase ==
    /\ pc = "select"
    /\ fiberStream # <<>> \/ ("hash" \in shutdown.closed /\ ClosedReads < MaxClosedReads)
    /\ LET fiberObs == IF fiberStream # <<>> THEN Head(fiberStream) ELSE ZeroObservation
       IN  /\ fiberMap' = storeFirst(fiberMap, fiberObs)
           /\ logger' = logger \o duplicateWarning(fiberMap, fiberObs, "fiber")
           /\ reads' = [reads EXCEPT !.fiber = Append(@, fiberObs)]
    /\ fiberStream' = IF fiberStream # <<>> THEN Tail(fiberStream) ELSE <<>>
    /\ UNCHANGED <<configVars, opened, componentVars, now, otherStream, payloadStream, produced, known, fiberDone, shutdown,
                   pc, i,
                   timerFired, otherMap, truthMap, resultVars, clickhouseVars,
                   obsWriter>>

\* case otherObs := <-otherStream
OtherCase ==
    /\ pc = "select"
    /\ otherStream # <<>>
    /\ LET otherObs == Head(otherStream)
       IN  /\ otherMap' = storeFirst(otherMap, otherObs)
           /\ logger' = logger \o duplicateWarning(otherMap, otherObs, "other")
           /\ reads' = [reads EXCEPT !.other = Append(@, otherObs)]
    /\ otherStream' = Tail(otherStream)
    /\ UNCHANGED <<configVars, opened, componentVars, now, fiberStream, payloadStream, produced, known, fiberDone, shutdown,
                   pc, i,
                   timerFired, fiberMap, truthMap, resultVars, clickhouseVars,
                   obsWriter>>

\* a payload that confirms nothing
confirmNothing(truth, payload) == truth

\* if b.config.crossCheck { for _, tx := range payload.Transactions { truthMap[tx.Hash] = struct{}{} } }
confirm(truth, payload) ==
    IF crossCheck THEN truth \cup payload.Transactions ELSE truth

\* case payload := <-payloadStream
\* A receive from the closed payload channel yields a nil *ExecutionPayload:
\* with crossCheck, payload.Transactions dereferences it and the program
\* panics; without, the case changes nothing.
PayloadCase ==
    /\ pc = "select"
    /\ \/ /\ payloadStream # <<>>
          /\ truthMap' = confirm(truthMap, Head(payloadStream))
          /\ reads' = [reads EXCEPT !.payload = Append(@, Head(payloadStream))]
          /\ payloadStream' = <<>>
          /\ UNCHANGED pc
       \/ /\ payloadStream = <<>>
          /\ "payloads" \in shutdown.closed
          /\ crossCheck
          /\ pc' = "panic"
          /\ UNCHANGED <<truthMap, reads, payloadStream>>
    /\ UNCHANGED <<configVars, opened, componentVars, now, fiberStream, otherStream, produced, known,
                   fiberDone, shutdown, i, timerFired, fiberMap, otherMap, logger,
                   resultVars, clickhouseVars, obsWriter>>

\* --------------------------------------------------- processIntervalResults
\* microDiff := otherTs - fiberTs
microDiffSwapped(fiberTs, otherTs) == fiberTs - otherTs

microDiff(fiberTs, otherTs) == otherTs - fiberTs

missingWarning(who, hash) ==
    IF logMissing THEN <<[level |-> "warn", msg |-> "saw transaction but the other did not",
                          hash |-> hash, source |-> who]>>
    ELSE <<>>

\* a row with the two timestamps in each other's field
ConfirmedObservationRowSwapped(hash, fiberTs, otherTs, difference) ==
    [TxHash |-> hash, FiberTimestamp |-> otherTs, OtherTimestamp |-> fiberTs,
     Difference |-> difference]

\* &types.ConfirmedObservationRow{...}, as RecordObservationRow stores it
ConfirmedObservationRow(hash, fiberTs, otherTs, difference) ==
    [TxHash |-> hash, FiberTimestamp |-> fiberTs, OtherTimestamp |-> otherTs,
     Difference |-> difference]

\* one iteration of `for hash := range truthMap`: the switch
classifyZeroDiff(acc, hash, fMap, oMap) ==
    LET fiberSaw == hash \in DOMAIN fMap
        otherSaw == hash \in DOMAIN oMap
        fiberTs == IF fiberSaw THEN fMap[hash].Timestamp ELSE 0
        otherTs == IF otherSaw THEN oMap[hash].Timestamp ELSE 0
        d == IF fiberSaw /\ otherSaw THEN microDiff(fiberTs, otherTs) ELSE 0
    IN  IF fiberSaw \/ otherSaw
        THEN [acc EXCEPT
                 !.diffMap = [h \in DOMAIN @ \cup {hash} |->
                                  IF h = hash THEN Milli(d) ELSE @[h]],
                 !.differences = Append(@, Milli(d)),
                 !.rows = Append(@, ConfirmedObservationRow(hash, fiberTs, otherTs, d))]
        ELSE acc

\* three `if` statements in place of the switch
classifySeparateIfs(acc, hash, fMap, oMap) ==
    LET fiberSaw == hash \in DOMAIN fMap
        otherSaw == hash \in DOMAIN oMap
        fiberTs == IF fiberSaw THEN fMap[hash].Timestamp ELSE 0
        otherTs == IF otherSaw THEN oMap[hash].Timestamp ELSE 0
        micro == microDiff(fiberTs, otherTs)
        a1 == IF fiberSaw /\ otherSaw
              THEN [acc EXCEPT
                       !.diffMap = [h \in DOMAIN @ \cup {hash} |->
                                        IF h = hash THEN Milli(micro) ELSE @[h]],
                       !.differences = Append(@, Milli(micro)),
                       !.rows = Append(@, ConfirmedObservationRow(hash, fiberTs, otherTs, micro))]
              ELSE acc
        a2 == IF fiberSaw
              THEN [a1 EXCEPT
                       !.warnings = @ \o missingWarning("fiber", hash),
                       !.rows = Append(@, ConfirmedObservationRow(hash, fiberTs, 0, 0))]
              ELSE a1
    IN  IF otherSaw
        THEN [a2 EXCEPT
                 !.warnings = @ \o missingWarning("other", hash),
                 !.rows = Append(@, ConfirmedObservationRow(hash, 0, otherTs, 0))]
        ELSE a2

classify(acc, hash, fMap, oMap) ==
    LET fiberSaw == hash \in DOMAIN fMap
        otherSaw == hash \in DOMAIN oMap
        fiberTs == IF fiberSaw THEN fMap[hash].Timestamp ELSE 0
        otherTs == IF otherSaw THEN oMap[hash].Timestamp ELSE 0
    IN  CASE fiberSaw /\ otherSaw ->
               LET micro == microDiff(fiberTs, otherTs)
                   milliDiff == Milli(micro)
               IN  [acc EXCEPT
                       !.diffMap = [h \in DOMAIN @ \cup {hash} |->
                                        IF h = hash THEN milliDiff ELSE @[h]],
                       !.differences = Append(@, milliDiff),
                       !.rows = Append(@, ConfirmedObservationRow(hash, fiberTs, otherTs, micro))]
          [] fiberSaw /\ ~otherSaw ->
               [acc EXCEPT
                   !.warnings = @ \o missingWarning("fiber", hash),
                   !.rows = Append(@, ConfirmedObservationRow(hash, fiberTs, 0, 0))]
          [] ~fiberSaw /\ otherSaw ->
               [acc EXCEPT
                   !.warnings = @ \o missingWarning("other", hash),
                   !.rows = Append(@, ConfirmedObservationRow(hash, 0, otherTs, 0))]
          [] OTHER -> acc

\* `for hash := range truthMap`, visiting the hashes in the order `order`
RECURSIVE rangeObserved(_, _, _, _)
rangeObserved(order, fMap, oMap, acc) ==
    LET seen == {acc.rows[k].TxHash : k \in 1..Len(acc.rows)}
        rest == (DOMAIN fMap \cup DOMAIN oMap) \ seen
    IN  IF order # <<>>
        THEN rangeObserved(Tail(order), fMap, oMap, classify(acc, Head(order), fMap, oMap))
        ELSE IF rest = {} THEN acc
        ELSE rangeObserved(<<CHOOSE h \in rest : \A g \in rest : h <= g>>, fMap, oMap, acc)

RECURSIVE rangeTruthMap(_, _, _, _)
rangeTruthMap(order, fMap, oMap, acc) ==
    IF order = <<>> THEN acc
    ELSE rangeTruthMap(Tail(order), fMap, oMap, classify(acc, Head(order), fMap, oMap))

\* the totals are printed unless the sink is clickhouse
totals(fMap, oMap) ==
    IF sink # "clickhouse"
    THEN Some([fiber |-> Cardinality(DOMAIN fMap), other |-> Cardinality(DOMAIN oMap)])
    ELSE None

processIntervalResults(fMap, oMap, order) ==
    LET acc == rangeTruthMap(order, fMap, oMap,
                             [diffMap |-> EmptyMap, differences |-> <<>>,
                              rows |-> <<>>, warnings |-> <<>>])
    IN  [diffMap |-> acc.diffMap,
         differences |-> acc.differences,
         rows |-> acc.rows,
         warnings |-> acc.warnings,
         printed |-> [totals |-> totals(fMap, oMap),
                      stats |-> printStats(acc.differences)],
         stats |-> buildObservationStats(acc.differences)]

\* stats.StartTime, EndTime and BenchmarkID identify the interval
StatsRow(st) == [Interval |-> i + 1, row |-> st.row]

\* if err != nil { b.logger.Error().Err(err).Msg("Failed to run interval") }
failedToRunInterval(st) ==
    IF st.err # "nil"
    THEN <<[level |-> "error", msg |-> "Failed to run interval", err |-> st.err]>>
    ELSE <<>>

\* `break` without the label leaves the select only
TimerCaseBreakSelect ==
    /\ pc = "select"
    /\ timerFired
    /\ timerFired' = FALSE
    /\ UNCHANGED <<configVars, opened, componentVars, sourceVars, pc, i, fiberMap, otherMap, truthMap,
                   reads, logger, resultVars, clickhouseVars, obsWriter>>

\* `for hash := range truthMap` up to the first call of
\* b.sink.RecordObservationRow: the hashes visited before it were seen by
\* neither source and leave nothing
RECURSIVE rangeToFirstRow(_, _, _, _)
rangeToFirstRow(order, fMap, oMap, acc) ==
    IF order = <<>> \/ acc.rows # <<>> THEN acc
    ELSE rangeToFirstRow(Tail(order), fMap, oMap, classify(acc, Head(order), fMap, oMap))

\* processIntervalResults has returned to runInterval and to Run: the
\* totals and the statistics are printed, stats and err are Run's locals
\* and a non-nil err is logged
intervalReturns(r) ==
    /\ differences' = r.differences
    /\ diffMap' = r.diffMap
    /\ printed' = Some(r.printed)
    /\ stats' = Some(r.stats)
    /\ logger' = logger \o r.warnings \o failedToRunInterval(r.stats)

\* case <-timer.C: break loop; return b.processIntervalResults(...); then Run
\* from `if err != nil` to the call of b.sink.Flush().
\* Go ranges over truthMap in an unspecified order.
\* Run uses b.sink without a nil check: RecordStats on the nil interface
\* panics.  CsvSink (built by NewCsvSink with obsWriter only) writes the
\* stats record to obsWriter, and its Flush calls Flush on the nil
\* statsWriter, which panics.  ClickhouseSink.Flush starts its two
\* goroutines (wg.Add(2)).  A batch that a failed PrepareBatch left nil
\* panics at its first use: observationRowBatch at the first
\* RecordObservationRow inside the range loop, before anything is printed,
\* or else at Flush's c.observationRowBatch.Rows(); statsBatch at
\* RecordStats.
TimerCase ==
    /\ pc = "select"
    /\ timerFired
    /\ timerFired' = FALSE
    /\ \E order \in Perms(truthMap) :
          \E r \in {processIntervalResults(fiberMap, otherMap, order)} :
              CASE SinkIsNil ->
                        /\ intervalReturns(r)
                        /\ pc' = "panic"
                        /\ UNCHANGED <<observationRowBatch, statsBatch, flusher, wg,
                                       obsWriter>>
                   [] sink = "clickhouse" /\ observationRowBatch.nil /\ r.rows # <<>> ->
                        /\ logger' = logger \o
                              rangeToFirstRow(order, fiberMap, otherMap,
                                              [diffMap |-> EmptyMap, differences |-> <<>>,
                                               rows |-> <<>>, warnings |-> <<>>]).warnings
                        /\ pc' = "panic"
                        /\ UNCHANGED <<resultVars, observationRowBatch, statsBatch,
                                       flusher, wg, obsWriter>>
                   [] sink = "clickhouse" /\ observationRowBatch.nil /\ r.rows = <<>> ->
                        /\ intervalReturns(r)
                        /\ statsBatch' =
                              IF statsBatch.nil THEN statsBatch
                              ELSE [statsBatch EXCEPT !.rows = Append(@, StatsRow(r.stats))]
                        /\ pc' = "panic"
                        /\ UNCHANGED <<observationRowBatch, flusher, wg, obsWriter>>
                   [] sink = "clickhouse" /\ ~observationRowBatch.nil /\ statsBatch.nil ->
                        /\ intervalReturns(r)
                        /\ observationRowBatch' =
                              [observationRowBatch EXCEPT !.rows = @ \o r.rows]
                        /\ pc' = "panic"
                        /\ UNCHANGED <<statsBatch, flusher, wg, obsWriter>>
                   [] sink = "clickhouse" /\ ~observationRowBatch.nil /\ ~statsBatch.nil ->
                        /\ intervalReturns(r)
                        /\ observationRowBatch' =
                              [observationRowBatch EXCEPT !.rows = @ \o r.rows]
                        /\ statsBatch' =
                              [statsBatch EXCEPT !.rows = Append(@, StatsRow(r.stats))]
                        /\ wg' = 2
                        /\ flusher' = [flusher EXCEPT !.obs = "send", !.stats = "send",
                                                       !.err = "nil"]
                        /\ pc' = "flush"
                        /\ UNCHANGED obsWriter
                   [] sink = "csv" ->
                        /\ intervalReturns(r)
                        /\ obsWriter' = (obsWriter \o r.rows) \o <<StatsRow(r.stats)>>
                        /\ pc' = "panic"
                        /\ UNCHANGED <<observationRowBatch, statsBatch, flusher, wg>>
    /\ UNCHANGED <<configVars, opened, componentVars, sourceVars, i, fiberMap, otherMap, truthMap, reads,
                   tables, sendFailures>>

\* ------------------------------------------------------ ClickhouseSink.Flush
\* the calls of the driver that have failed so far
DriverFailures == sendFailures + flusher.failed

\* One iteration of a goroutine's send loop:
\*   if batch.IsSent() { break }
\*   if err := batch.Send(); err != nil { log } else { break }
\* A successful Send delivers the rows.  Whether a failed Send leaves the
\* batch marked as sent depends on the driver's version, which go.mod does
\* not pin: both outcomes are modelled.
ObsSend ==
    /\ flusher.obs = "send"
    /\ \/ /\ observationRowBatch.sent
          /\ flusher' = [flusher EXCEPT !.obs = "prepare"]
          /\ UNCHANGED <<observationRowBatch, tables, sendFailures>>
       \/ /\ ~observationRowBatch.sent
          /\ tables' = [tables EXCEPT
                           !.confirmed_observations = @ \o observationRowBatch.rows]
          /\ observationRowBatch' = [observationRowBatch EXCEPT !.sent = TRUE]
          /\ flusher' = [flusher EXCEPT !.obs = "prepare"]
          /\ UNCHANGED sendFailures
       \/ /\ ~observationRowBatch.sent
          /\ DriverFailures < MaxSendFailures
          /\ sendFailures' = sendFailures + 1
          /\ \E marked \in BOOLEAN :
                observationRowBatch' = [observationRowBatch EXCEPT !.sent = marked]
          /\ UNCHANGED <<flusher, tables>>
    /\ UNCHANGED <<configVars, opened, componentVars, sourceVars, pc, i, intervalVars, logger,
                   resultVars, statsBatch, wg, obsWriter>>

\* "Reset batch": c.observationRowBatch, err = c.chConn.PrepareBatch(...).
\* The call assigns the sink's batch and the err of Flush, which the two
\* goroutines share; a failing call returns the nil batch and an error.
ObsPrepare ==
    /\ flusher.obs = "prepare"
    /\ \/ /\ observationRowBatch' = FreshBatch
          /\ flusher' = [flusher EXCEPT !.obs = "check", !.err = "nil"]
       \/ /\ DriverFailures < MaxSendFailures
          /\ observationRowBatch' = NilBatch
          /\ flusher' = [flusher EXCEPT !.obs = "check", !.err = "err",
                                        !.failed = @ + 1]
    /\ UNCHANGED <<configVars, opened, componentVars, sourceVars, pc, i, intervalVars, logger,
                   resultVars, statsBatch, tables, wg, sendFailures, obsWriter>>

\* if err != nil { log } else { break }, and after the loop the deferred
\* wg.Done().  The err read is the one last assigned by either goroutine.
ObsCheckErr ==
    /\ flusher.obs = "check"
    /\ IF flusher.err # "nil"
       THEN /\ flusher' = [flusher EXCEPT !.obs = "prepare"]
            /\ UNCHANGED wg
       ELSE /\ flusher' = [flusher EXCEPT !.obs = "idle"]
            /\ wg' = wg - 1
    /\ UNCHANGED <<configVars, opened, componentVars, sourceVars, pc, i, intervalVars, logger,
                   resultVars, observationRowBatch, statsBatch, tables, sendFailures,
                   obsWriter>>

StatsSend ==
    /\ flusher.stats = "send"
    /\ \/ /\ statsBatch.sent
          /\ flusher' = [flusher EXCEPT !.stats = "prepare"]
          /\ UNCHANGED <<statsBatch, tables, sendFailures>>
       \/ /\ ~statsBatch.sent
          /\ tables' = [tables EXCEPT !.observation_stats = @ \o statsBatch.rows]
          /\ statsBatch' = [statsBatch EXCEPT !.sent = TRUE]
          /\ flusher' = [flusher EXCEPT !.stats = "prepare"]
          /\ UNCHANGED sendFailures
       \/ /\ ~statsBatch.sent
          /\ DriverFailures < MaxSendFailures
          /\ sendFailures' = sendFailures + 1
          /\ \E marked \in BOOLEAN : statsBatch' = [statsBatch EXCEPT !.sent = marked]
          /\ UNCHANGED <<flusher, tables>>
    /\ UNCHANGED <<configVars, opened, componentVars, sourceVars, pc, i, intervalVars, logger,
                   resultVars, observationRowBatch, wg, obsWriter>>

StatsPrepare ==
    /\ flusher.stats = "prepare"
    /\ \/ /\ statsBatch' = FreshBatch
          /\ flusher' = [flusher EXCEPT !.stats = "check", !.err = "nil"]
       \/ /\ DriverFailures < MaxSendFailures
          /\ statsBatch' = NilBatch
          /\ flusher' = [flusher EXCEPT !.stats = "check", !.err = "err",
                                        !.failed = @ + 1]
    /\ UNCHANGED <<configVars, opened, componentVars, sourceVars, pc, i, intervalVars, logger,
                   resultVars, observationRowBatch, tables, wg, sendFailures,
                   obsWriter>>

StatsCheckErr ==
    /\ flusher.stats = "check"
    /\ IF flusher.err # "nil"
       THEN /\ flusher' = [flusher EXCEPT !.stats = "prepare"]
            /\ UNCHANGED wg
       ELSE /\ flusher' = [flusher EXCEPT !.stats = "idle"]
            /\ wg' = wg - 1
    /\ UNCHANGED <<configVars, opened, componentVars, sourceVars, pc, i, intervalVars, logger,
                   resultVars, observationRowBatch, statsBatch, tables, sendFailures,
                   obsWriter>>

\* wg.Wait()
flushNoWait == TRUE

flushWait == wg = 0

\* Flush returns nil to Run, which goes on to i++ and the loop head
FlushReturn ==
    /\ pc = "flush"
    /\ flushWait
    /\ i' = i + 1
    /\ enterLoop(i + 1)
    /\ UNCHANGED <<configVars, opened, componentVars, sourceVars, clickhouseVars, obsWriter>>

\* ------------------------------------- Run's deferred b.fiberSource.Close()
shutdownFrame ==
    UNCHANGED <<configVars, opened, componentVars, now, fiberStream, otherStream,
                payloadStream, produced, known, pc, i, intervalVars, logger,
                resultVars, clickhouseVars, obsWriter>>

\* Run returns after "Benchmark complete", or unwinds after a panic in its
\* loop: `defer b.fiberSource.Close()` is registered once the three
\* subscriptions are made.
\* FiberSource.Close, first statement: close(f.done)
Close ==
    /\ pc \in {"done", "panic"}
    /\ AllOpened \subseteq opened
    /\ ~fiberDone
    /\ fiberDone' = TRUE
    /\ UNCHANGED shutdown
    /\ shutdownFrame

\* FiberSource.Close, second statement: return f.client.Close(); the
\* deferred call drops the error
CloseClient ==
    /\ fiberDone
    /\ shutdown.client = "open"
    /\ shutdown.panic = "none"
    /\ shutdown' = [shutdown EXCEPT !.client = "closed"]
    /\ UNCHANGED fiberDone
    /\ shutdownFrame

\* the goroutine of SubscribeTransactions / SubscribeExecutionPayloads:
\* `<-f.done; close(ch)`.  A client goroutine blocked in `ch <- item` panics:
\* payloadStream holds the payload its sender is offering; whether the
\* client is offering a transaction is not part of this state
CloseStream(c) ==
    /\ fiberDone
    /\ c \notin shutdown.closed
    /\ shutdown.panic = "none"
    /\ \E blocked \in BOOLEAN :
          /\ c = "payloads" => blocked = (payloadStream # <<>>)
          /\ shutdown' = [shutdown EXCEPT
                             !.closed = @ \cup {c},
                             !.panic = IF blocked THEN "send on closed channel" ELSE @]
    /\ UNCHANGED fiberDone
    /\ shutdownFrame

\* the goroutine of SubscribeTransactionObservations: `for tx := range ch`
\* ends once ch is closed, then close(hashCh)
CloseHashCh ==
    /\ "txs" \in shutdown.closed
    /\ "hash" \notin shutdown.closed
    /\ shutdown.panic = "none"
    /\ shutdown' = [shutdown EXCEPT !.closed = @ \cup {"hash"}]
    /\ UNCHANGED fiberDone
    /\ shutdownFrame

\* the client, not yet closed, sends its next item on a channel that its
\* helper goroutine has closed
SendOnClosed(c) ==
    /\ c \in shutdown.closed
    /\ shutdown.client = "open"
    /\ shutdown.panic = "none"
    /\ shutdown' = [shutdown EXCEPT !.panic = "send on closed channel"]
    /\ UNCHANGED fiberDone
    /\ shutdownFrame

\* f.client.SubscribeNewTxs / SubscribeNewExecutionPayloads returns an
\* error once the client is closed: `if err != nil { panic(err) }`
SubscriptionFails ==
    /\ shutdown.client = "closed"
    /\ shutdown.panic = "none"
    /\ shutdown' = [shutdown EXCEPT !.panic = "panic(err)"]
    /\ UNCHANGED fiberDone
    /\ shutdownFrame

\* Run, the sources that feed it, the goroutines of Flush, and Run's
\* deferred call
Next ==
    \/ Run
    \/ FiberSend
    \/ OtherSend
    \/ PayloadSend
    \/ TimerFire
    \/ FiberCase
    \/ OtherCase
    \/ PayloadCase
    \/ TimerCase
    \/ ObsSend
    \/ ObsPrepare
    \/ ObsCheckErr
    \/ StatsSend
    \/ StatsPrepare
    \/ StatsCheckErr
    \/ FlushReturn
    \/ Close
    \/ CloseClient

Spec == Init /\ [][Next]_vars

\* a run of a single interval (-interval-count 1)
InitOneInterval == Init /\ intervalCount = 1

\* Go's select picks uniformly at random among the ready cases, the runtime
\* delivers the timer's tick, and runnable goroutines are scheduled
FairSpec ==
    /\ InitOneInterval
    /\ [][Next]_vars
    /\ WF_vars(TimerFire)
    /\ WF_vars(TimerCase)
    /\ WF_vars(Run)
    /\ WF_vars(ObsSend)
    /\ WF_vars(ObsPrepare)
    /\ WF_vars(ObsCheckErr)
    /\ WF_vars(StatsSend)
    /\ WF_vars(StatsPrepare)
    /\ WF_vars(StatsCheckErr)
    /\ WF_vars(FlushReturn)

\* ------------------------------------------------ runTransactionBenchmark
\* a sink setting that config.validate rejects: an unknown sink name, a
\* clickhouse sink without endpoint, user, password or database, a csv sink
\* without log file
InvalidSink == "invalid"

\* the program at the call of runTransactionBenchmark: the command line is
\* parsed, nothing is connected
InitStartup ==
    /\ crossCheck \in BOOLEAN
    /\ logMissing \in BOOLEAN
    /\ sink \in SinkKinds \cup {InvalidSink}
    /\ intervalCount \in 0..1
    /\ otherConfigured \in BOOLEAN
    /\ opened = {}
    /\ now = ClockStart
    /\ fiberStream = <<>>
    /\ otherStream = <<>>
    /\ payloadStream = <<>>
    /\ produced = [fiber |-> 0, other |-> 0, payload |-> 0]
    /\ known = 0
    /\ fiberDone = FALSE
    /\ shutdown = NoShutdown
    /\ pc = "validate"
    /\ i = 0
    /\ timerFired = FALSE
    /\ fiberMap = EmptyMap
    /\ otherMap = EmptyMap
    /\ truthMap = {}
    /\ reads = [fiber |-> <<>>, other |-> <<>>, payload |-> <<>>]
    /\ logger = <<>>
    /\ differences = <<>>
    /\ diffMap = EmptyMap
    /\ printed = None
    /\ stats = None
    /\ observationRowBatch = FreshBatch
    /\ statsBatch = FreshBatch
    /\ tables = [confirmed_observations |-> <<>>, observation_stats |-> <<>>]
    /\ flusher = FlushIdle
    /\ wg = 0
    /\ sendFailures = 0
    /\ obsWriter = <<>>
    /\ ComponentsIdle

\* config.validate: only the sink and its settings are looked at
validate == IF sink = InvalidSink THEN "invalid sink" ELSE "nil"

\* if err := config.validate(); err != nil { logger.Fatal()... }
Validate ==
    /\ pc = "validate"
    /\ pc' = IF validate # "nil" THEN "fatal" ELSE "connect"
    /\ UNCHANGED <<configVars, opened, componentVars, sourceVars, i, intervalVars, logger,
                   resultVars, clickhouseVars, obsWriter>>

\* fiberSource.Connect(), then the other source is built if it is
\* configured, then setupSink: either call can return an error, which
\* runTransactionBenchmark returns
Connect ==
    /\ pc = "connect"
    /\ \E connectErr, sinkErr \in BOOLEAN :
          /\ SinkIsNil => ~sinkErr
          /\ opened' = IF connectErr THEN opened ELSE opened \cup {"fiber"}
          /\ pc' = IF connectErr \/ sinkErr THEN "exit" ELSE "subscribe"
          /\ obsWriter' = IF connectErr \/ sinkErr THEN obsWriter ELSE NewCsvSink
    /\ UNCHANGED <<configVars, componentVars, sourceVars, i, intervalVars, logger,
                   resultVars, clickhouseVars>>

\* Run's var block, first statement:
\* fiberStream = b.fiberSource.SubscribeTransactionObservations(), which
\* makes hashCh and starts the goroutines of the fiber source; they run
\* while Run goes on to the next subscription
SubscribeFiberTxs ==
    /\ pc = "subscribe"
    /\ opened' = opened \cup {"fiberTxs"}
    /\ pc' = "subscribeOther"
    /\ UNCHANGED <<configVars, componentVars, sourceVars, i, intervalVars, logger,
                   resultVars, clickhouseVars, obsWriter>>

\* second statement: otherStream = b.otherSource.SubscribeTransactionObservations().
\* b.otherSource is the nil interface when the other source is not
\* configured, and the call of its method panics.  Otherwise
\* BloxrouteSource.SubscribeTransactions dials, writes the subscribe request
\* and reads the confirmation; when one of them fails the caller calls
\* log.Fatal and the process exits.
SubscribeOtherTxs ==
    /\ pc = "subscribeOther"
    /\ \E err \in BOOLEAN :
          CASE ~otherConfigured ->
                 /\ pc' = "panic"
                 /\ UNCHANGED opened
            [] otherConfigured /\ err ->
                 /\ pc' = "fatal"
                 /\ UNCHANGED opened
            [] otherConfigured /\ ~err ->
                 /\ opened' = opened \cup {"otherTxs"}
                 /\ pc' = "subscribePayloads"
    /\ UNCHANGED <<configVars, componentVars, sourceVars, i, intervalVars, logger,
                   resultVars, clickhouseVars, obsWriter>>

\* third statement: payloadStream = b.fiberSource.SubscribeExecutionPayloads();
\* then `defer b.fiberSource.Close()` and the loop
SubscribePayloads ==
    /\ pc = "subscribePayloads"
    /\ opened' = opened \cup {"payloads"}
    /\ pc' = "start"
    /\ UNCHANGED <<configVars, componentVars, sourceVars, i, intervalVars, logger,
                   resultVars, clickhouseVars, obsWriter>>

NextStartup ==
    \/ Validate
    \/ Connect
    \/ SubscribeFiberTxs
    \/ SubscribeOtherTxs
    \/ SubscribePayloads
    \/ Next

SpecStartup == InitStartup /\ [][NextStartup]_vars

\* Run, and what the goroutines of the fiber source do once the deferred
\* call has closed done, until the process ends
\* ("txs" and "payloads" are the two channels whose sender is the fiber
\* client)
NextShutdown ==
    \/ Next
    \/ \E c \in {"txs", "payloads"} : CloseStream(c)
    \/ CloseHashCh
    \/ \E c \in {"txs", "payloads"} : SendOnClosed(c)
    \/ SubscriptionFails

\* a run of at most one interval
InitShutdown == Init /\ intervalCount <= 1

SpecShutdown == InitShutdown /\ [][NextShutdown]_vars

\* ------------------------------------------- the aggregator on its own input
DiffValues == {Milli(500 * k) : k \in -MaxHalfMs..MaxHalfMs}

\* the differences of four hashes the other source saw 10, 20, 30 and 40 ms
\* after the fiber source
FixtureDifferences == <<Milli(10000), Milli(20000), Milli(30000), Milli(40000)>>

DiffLists == UNION {[1..n -> DiffValues] : n \in 0..MaxLen} \cup {FixtureDifferences}

InitStats ==
    /\ crossCheck = TRUE
    /\ logMissing = TRUE
    /\ sink = "none"
    /\ intervalCount = 1
    /\ otherConfigured = TRUE
    /\ opened = AllOpened
    /\ now = ClockStart
    /\ fiberStream = <<>>
    /\ otherStream = <<>>
    /\ payloadStream = <<>>
    /\ produced = [fiber |-> 0, other |-> 0, payload |-> 0]
    /\ known = 0
    /\ fiberDone = FALSE
    /\ shutdown = NoShutdown
    /\ pc = "aggregate"
    /\ i = 0
    /\ timerFired = FALSE
    /\ fiberMap = EmptyMap
    /\ otherMap = EmptyMap
    /\ truthMap = {}
    /\ reads = [fiber |-> <<>>, other |-> <<>>, payload |-> <<>>]
    /\ logger = <<>>
    /\ differences \in DiffLists
    /\ diffMap = EmptyMap
    /\ printed = None
    /\ stats = None
    /\ observationRowBatch = FreshBatch
    /\ statsBatch = FreshBatch
    /\ tables = [confirmed_observations |-> <<>>, observation_stats |-> <<>>]
    /\ flusher = FlushIdle
    /\ wg = 0
    /\ sendFailures = 0
    /\ obsWriter = <<>>
    /\ ComponentsIdle

\* b.printStats(differences)
PrintStats ==
    /\ pc = "aggregate"
    /\ printed = None
    /\ printed' = Some([totals |-> None, stats |-> printStats(differences)])
    /\ UNCHANGED <<configVars, opened, componentVars, sourceVars, pc, i, intervalVars, logger,
                   differences, diffMap, stats, clickhouseVars, obsWriter>>

\* return buildObservationStats(differences)
BuildObservationStats ==
    /\ pc = "aggregate"
    /\ printed # None
    /\ stats = None
    /\ stats' = Some(buildObservationStats(differences))
    /\ UNCHANGED <<configVars, opened, componentVars, sourceVars, pc, i, intervalVars, logger,
                   differences, diffMap, printed, clickhouseVars, obsWriter>>

NextStats == PrintStats \/ BuildObservationStats

SpecStats == InitStats /\ [][NextStats]_vars

\* --------------------------------------------------------- BloxrouteSource
\* what the rest of the program holds still while a component runs alone
coreVars == <<configVars, opened, sourceVars, pc, i, intervalVars, logger,
              resultVars, clickhouseVars, obsWriter>>

BlxrAlive == blxr.panic = "none"

\* what sub.ReadMessage and json.Unmarshal can come to for one message: the
\* message of a hash, a read that fails, a message that does not decode
Messages == [kind : {"ok"}, hash : Hashes] \cup [kind : {"readErr", "decodeErr"}, hash : {0}]

\* SubscribeTransactions / SubscribeExecutionPayloads up to `go func()`: the
\* channel is made, the connection dialled, the request written and the
\* confirmation read; any of the three can fail, and then nothing is started
BlxrSubscribe(r) ==
    /\ BlxrAlive
    /\ blxr.reader[r].pc = "none"
    /\ blxr.close = "none"
    /\ \E err \in BOOLEAN :
          blxr' = [blxr EXCEPT !.reader[r] =
                      IF err THEN [@ EXCEPT !.pc = "failed"]
                      ELSE [@ EXCEPT !.pc = "select", !.ch = "open", !.sub = "open"]]
    /\ UNCHANGED <<coreVars, fiberSrc, legacy, blockBench>>

\* select { case <-b.done: close(ch); sub.Close(); return; default: }
\* A receive from a nil channel is never ready: only a closed done is seen.
BlxrSelectDone(r) ==
    /\ BlxrAlive
    /\ blxr.reader[r].pc = "select"
    /\ blxr' = [blxr EXCEPT !.reader[r] =
                   IF blxr.done = "closed"
                   THEN [@ EXCEPT !.pc = "returned", !.ch = "closed", !.sub = "closed"]
                   ELSE [@ EXCEPT !.pc = "read"]]
    /\ UNCHANGED <<coreVars, fiberSrc, legacy, blockBench>>

\* sub.ReadMessage and json.Unmarshal: a failure of either is logged and the
\* loop continues; a decoded message is offered on the unbuffered channel
BlxrReadMessage(r) ==
    /\ BlxrAlive
    /\ blxr.reader[r].pc = "read"
    /\ blxr.reader[r].read < MaxMsgs
    /\ \E m \in Messages :
          blxr' = IF m.kind = "ok"
                  THEN [blxr EXCEPT !.reader[r].pc = "send",
                                    !.reader[r].msg = <<m.hash>>,
                                    !.reader[r].read = @ + 1]
                  ELSE [blxr EXCEPT !.reader[r].pc = "select",
                                    !.reader[r].read = @ + 1,
                                    !.log = Append(@, m.kind),
                                    !.dropped = Append(@, [reader |-> r, kind |-> m.kind])]
    /\ UNCHANGED <<coreVars, fiberSrc, legacy, blockBench>>

\* ch <- &decoded.Params.Result completes when the goroutine ranging over ch
\* (SubscribeTransactionObservations, SubscribeBlockObservations) receives it
BlxrReceive(r) ==
    /\ BlxrAlive
    /\ blxr.reader[r].pc = "send"
    /\ blxr' = [blxr EXCEPT !.reader[r].pc = "select",
                            !.reader[r].msg = <<>>,
                            !.received[r] = Append(@, blxr.reader[r].msg[1])]
    /\ UNCHANGED <<coreVars, fiberSrc, legacy, blockBench>>

\* BloxrouteSource.Close: close(b.done).  Closing a nil channel panics, and so
\* does closing a closed one.
BlxrClose ==
    /\ BlxrAlive
    /\ blxr.close = "none"
    /\ blxr' = IF blxr.done = "open"
               THEN [blxr EXCEPT !.done = "closed", !.close = "returned"]
               ELSE [blxr EXCEPT !.close = "panicked",
                                 !.panic = IF blxr.done = "nil" THEN "close of nil channel"
                                           ELSE "close of closed channel"]
    /\ UNCHANGED <<coreVars, fiberSrc, legacy, blockBench>>

NextBloxroute ==
    \/ \E r \in Readers : BlxrSubscribe(r)
    \/ \E r \in Readers : BlxrSelectDone(r)
    \/ \E r \in Readers : BlxrReadMessage(r)
    \/ \E r \in Readers : BlxrReceive(r)
    \/ BlxrClose

\* a component on its own: the benchmarker is not started
InitComponent ==
    /\ Init
    /\ crossCheck /\ logMissing
    /\ sink = "none"
    /\ intervalCount = 0

SpecBloxroute == InitComponent /\ [][NextBloxroute]_vars

\* ------------------------------------------------------------- FiberSource
FiberAlive == fiberSrc.panic = "none"

\* the two texts of SubscribeTransactionObservations: the one of
\* sources/bloxroute/bloxroute.go closes hashCh after its range loop, the one
\* of unnamed/part_005 does not
Revisions == {"bloxroute.go", "part_005"}

\* SubscribeTransactions / SubscribeExecutionPayloads: the unbuffered channel
\* is made and two goroutines are started, the client's sender and the one
\* that waits for done
subscribed(src, c) ==
    [src EXCEPT !.ch[c] = "open", !.sender[c].pc = "idle", !.closer[c] = "waiting"]

\* SubscribeExecutionPayloads, called by the consumer of the payloads
FiberSubscribePayloads ==
    /\ FiberAlive
    /\ fiberSrc.ch["payloads"] = "none"
    /\ fiberSrc' = subscribed(fiberSrc, "payloads")
    /\ UNCHANGED <<coreVars, blxr, legacy, blockBench>>

\* SubscribeTransactionObservations: hashCh is made and the goroutine that
\* calls SubscribeTransactions and ranges over its channel is started
FiberSubscribeObservations ==
    /\ FiberAlive
    /\ fiberSrc.observer.pc = "none"
    /\ \E rev \in Revisions :
          fiberSrc' = [subscribed(fiberSrc, "txs") EXCEPT
                          !.observer = [pc |-> "range", rev |-> rev, held |-> <<>>]]
    /\ UNCHANGED <<coreVars, blxr, legacy, blockBench>>

\* f.client.SubscribeNewTxs / SubscribeNewExecutionPayloads: `ch <- item`.
\* The send blocks until it is received; on a closed channel it panics.
FiberOffer(c) ==
    /\ FiberAlive
    /\ fiberSrc.sender[c].pc = "idle"
    /\ ~fiberSrc.clientClosed
    /\ fiberSrc.sender[c].sent < MaxMsgs
    /\ \E h \in Hashes :
          fiberSrc' = IF fiberSrc.ch[c] = "closed"
                      THEN [fiberSrc EXCEPT !.panic = "send on closed channel"]
                      ELSE [fiberSrc EXCEPT !.sender[c] =
                               [pc |-> "offering", msg |-> <<h>>, sent |-> @.sent + 1]]
    /\ UNCHANGED <<coreVars, blxr, legacy, blockBench>>

\* the client's call returns once the client is closed; `if err != nil {
\* panic(err) }`
FiberSenderReturn(c) ==
    /\ FiberAlive
    /\ fiberSrc.sender[c].pc = "idle"
    /\ fiberSrc.clientClosed
    /\ \E err \in BOOLEAN :
          fiberSrc' = IF err THEN [fiberSrc EXCEPT !.panic = "panic(err)"]
                      ELSE [fiberSrc EXCEPT !.sender[c].pc = "returned"]
    /\ UNCHANGED <<coreVars, blxr, legacy, blockBench>>

\* `for tx := range ch`: the observation goroutine receives a transaction
FiberObserve ==
    /\ FiberAlive
    /\ fiberSrc.observer.pc = "range"
    /\ fiberSrc.sender["txs"].pc = "offering"
    /\ fiberSrc' = [fiberSrc EXCEPT !.observer.pc = "send",
                                    !.observer.held = fiberSrc.sender["txs"].msg,
                                    !.sender["txs"].pc = "idle",
                                    !.sender["txs"].msg = <<>>]
    /\ UNCHANGED <<coreVars, blxr, legacy, blockBench>>

\* hashCh <- types.Observation{...}: blocks while the buffer is full
FiberForward ==
    /\ FiberAlive
    /\ fiberSrc.observer.pc = "send"
    /\ Len(fiberSrc.hashCh.buf) < ChanCap
    /\ fiberSrc' = [fiberSrc EXCEPT !.observer.pc = "range",
                                    !.observer.held = <<>>,
                                    !.hashCh.buf = Append(@, fiberSrc.observer.held[1])]
    /\ UNCHANGED <<coreVars, blxr, legacy, blockBench>>

\* the range loop ends when ch is closed; bloxroute.go then closes hashCh
FiberRangeEnd ==
    /\ FiberAlive
    /\ fiberSrc.observer.pc = "range"
    /\ fiberSrc.ch["txs"] = "closed"
    /\ fiberSrc' = [fiberSrc EXCEPT
                        !.observer.pc = "returned",
                        !.hashCh.closed = (fiberSrc.observer.rev = "bloxroute.go")]
    /\ UNCHANGED <<coreVars, blxr, legacy, blockBench>>

\* a consumer ranging over hashCh receives an observation
FiberConsume ==
    /\ FiberAlive
    /\ fiberSrc.hashCh.buf # <<>>
    /\ fiberSrc' = [fiberSrc EXCEPT !.hashCh.buf = Tail(@),
                                    !.consumed = Append(@, Head(fiberSrc.hashCh.buf))]
    /\ UNCHANGED <<coreVars, blxr, legacy, blockBench>>

\* the consumer of the payload channel receives a payload
FiberReceivePayload ==
    /\ FiberAlive
    /\ fiberSrc.sender["payloads"].pc = "offering"
    /\ fiberSrc' = [fiberSrc EXCEPT !.sender["payloads"].pc = "idle",
                                    !.sender["payloads"].msg = <<>>]
    /\ UNCHANGED <<coreVars, blxr, legacy, blockBench>>

\* FiberSource.Close, first statement: close(f.done).  On a source that has
\* been closed before, close panics.
FiberClose ==
    /\ FiberAlive
    /\ fiberSrc.close \in {"none", "returned"}
    /\ fiberSrc' = IF fiberSrc.done = "closed"
                   THEN [fiberSrc EXCEPT !.panic = "close of closed channel"]
                   ELSE [fiberSrc EXCEPT !.done = "closed", !.close = "client"]
    /\ UNCHANGED <<coreVars, blxr, legacy, blockBench>>

\* FiberSource.Close, second statement: return f.client.Close()
FiberClientClose ==
    /\ FiberAlive
    /\ fiberSrc.close = "client"
    /\ \E err \in {"nil", "err"} :
          fiberSrc' = [fiberSrc EXCEPT !.clientClosed = TRUE, !.close = "returned",
                                       !.closeErr = err]
    /\ UNCHANGED <<coreVars, blxr, legacy, blockBench>>

\* `<-f.done; close(ch)`: a sender blocked in `ch <- item` panics
FiberCloseChannel(c) ==
    /\ FiberAlive
    /\ fiberSrc.closer[c] = "waiting"
    /\ fiberSrc.done = "closed"
    /\ fiberSrc' = IF fiberSrc.sender[c].pc = "offering"
                   THEN [fiberSrc EXCEPT !.ch[c] = "closed", !.closer[c] = "returned",
                                         !.panic = "send on closed channel"]
                   ELSE [fiberSrc EXCEPT !.ch[c] = "closed", !.closer[c] = "returned"]
    /\ UNCHANGED <<coreVars, blxr, legacy, blockBench>>

NextFiberSource ==
    \/ FiberSubscribePayloads
    \/ FiberSubscribeObservations
    \/ \E c \in Streams : FiberOffer(c)
    \/ \E c \in Streams : FiberSenderReturn(c)
    \/ FiberObserve
    \/ FiberForward
    \/ FiberRangeEnd
    \/ FiberConsume
    \/ FiberReceivePayload
    \/ FiberClose
    \/ FiberClientClose
    \/ \E c \in Streams : FiberCloseChannel(c)

\* a FiberSource on its own; the benchmarker is not started
SpecFiberSource == InitComponent /\ [][NextFiberSource]_vars

\* ------------------------------------------- the single-shot program (main)
\* the process runs until main returns, panics or calls log.Fatal
LegacyAlive == legacy.pc \in {"main", "runFiber", "sleep", "iterating"}

\* time.Now().UnixMilli(): the clock does not go back
LegacyLater == {t \in 1..MaxClock : t >= legacy.clock}

\* Go's integer division truncates towards zero
IntDiv(a, b) == IF a >= 0 THEN a \div b ELSE -((-a) \div b)

RECURSIVE SumOver(_, _)
SumOver(f, S) ==
    IF S = {} THEN 0
    ELSE LET x == CHOOSE y \in S : TRUE IN f[x] + SumOver(f, S \ {x})

\* main up to the call of runFiber: the keys, the endpoints and DURATION are
\* read (log.Fatal when one is missing), the two contexts get their deadline
\* and runBloxroute is started in a goroutine
LegacyMain ==
    /\ legacy.pc = "main"
    /\ \E configured \in BOOLEAN :
          legacy' = IF configured
                    THEN [legacy EXCEPT !.pc = "runFiber", !.fiber.pc = "connect",
                                        !.blxr.pc = "dial"]
                    ELSE [legacy EXCEPT !.pc = "fatal"]
    /\ UNCHANGED <<coreVars, blxr, fiberSrc, blockBench>>

\* the deadline of ctx1 (runBloxroute) or ctx2 (runFiber) passes
LegacyDeadline(c) ==
    /\ LegacyAlive
    /\ legacy.pc # "main"
    /\ legacy.ctx[c] = "live"
    /\ legacy' = [legacy EXCEPT !.ctx[c] = "done"]
    /\ UNCHANGED <<coreVars, blxr, fiberSrc, blockBench>>

\* runFiber: c.Connect(ctx); an error is returned to main, which calls
\* log.Fatal; otherwise the channel is made and SubscribeNewTxs started
runFiberConnect ==
    /\ LegacyAlive
    /\ legacy.fiber.pc = "connect"
    /\ \E err \in BOOLEAN :
          legacy' = IF err THEN [legacy EXCEPT !.pc = "fatal", !.fiber.pc = "returned"]
                    ELSE [legacy EXCEPT !.fiber.pc = "range"]
    /\ UNCHANGED <<coreVars, blxr, fiberSrc, blockBench>>

\* the fiber client has a transaction and offers it on the unbuffered sub
LegacyFiberOffer ==
    /\ LegacyAlive
    /\ legacy.fiber.pc = "range"
    /\ legacy.fiber.offered = <<>>
    /\ legacy.fiber.delivered < MaxMsgs
    /\ \E h \in Hashes :
          legacy' = [legacy EXCEPT !.fiber.offered = <<h>>,
                                   !.fiber.delivered = @ + 1]
    /\ UNCHANGED <<coreVars, blxr, fiberSrc, blockBench>>

\* runFiber: `for tx := range sub`: a transaction is received; then the
\* select: with ctx done runFiber returns nil and main goes on, otherwise
\* fiberMap[tx.Hash] = time.Now().UnixMilli()
runFiberReceive ==
    /\ LegacyAlive
    /\ legacy.fiber.pc = "range"
    /\ legacy.fiber.offered # <<>>
    /\ IF legacy.ctx.fiber = "done"
       THEN legacy' = [legacy EXCEPT !.fiber.pc = "returned", !.fiber.offered = <<>>,
                                     !.pc = "sleep"]
       ELSE \E t \in LegacyLater :
               legacy' = [legacy EXCEPT
                             !.fiber.offered = <<>>,
                             !.clock = t,
                             !.fiberMap = [h \in DOMAIN @ \cup {legacy.fiber.offered[1]} |->
                                              IF h = legacy.fiber.offered[1] THEN t ELSE @[h]]]
    /\ UNCHANGED <<coreVars, blxr, fiberSrc, blockBench>>

\* runBloxroute: Dial and WriteMessage; an error is returned and the
\* goroutine calls log.Fatal
runBloxrouteDial ==
    /\ LegacyAlive
    /\ legacy.blxr.pc = "dial"
    /\ \E err \in BOOLEAN :
          legacy' = IF err THEN [legacy EXCEPT !.pc = "fatal", !.blxr.pc = "returned"]
                    ELSE [legacy EXCEPT !.blxr.pc = "select"]
    /\ UNCHANGED <<coreVars, blxr, fiberSrc, blockBench>>

\* runBloxroute: select { case <-ctx.Done(): return nil; default: }
runBloxrouteSelect ==
    /\ LegacyAlive
    /\ legacy.blxr.pc = "select"
    /\ legacy' = [legacy EXCEPT !.blxr.pc =
                      IF legacy.ctx.blxr = "done" THEN "returned" ELSE "read"]
    /\ UNCHANGED <<coreVars, blxr, fiberSrc, blockBench>>

\* runBloxroute: sub.ReadMessage (an error is logged and nothing else),
\* ts := time.Now().UnixMilli(), json.Unmarshal (its error is not looked
\* at), blxrMap[decoded.Params.Result.TxHash] = ts: after a failed read or
\* decode the hash is the zero hash.  main ranges over blxrMap without
\* waiting for this goroutine: a write during the iteration is a data race,
\* which the runtime can end with a fatal error.
runBloxrouteRead ==
    /\ LegacyAlive
    /\ legacy.blxr.pc = "read"
    /\ legacy.blxr.read < MaxMsgs
    /\ \E m \in Messages, t \in LegacyLater, fatal \in BOOLEAN :
          /\ fatal => legacy.pc = "iterating"
          /\ legacy' =
                IF fatal THEN [legacy EXCEPT !.pc = "fatal"]
                ELSE [legacy EXCEPT
                         !.blxr.pc = "select",
                         !.blxr.read = @ + 1,
                         !.clock = t,
                         !.log = IF m.kind = "readErr" THEN Append(@, m.kind) ELSE @,
                         !.blxrMap = [h \in DOMAIN @ \cup {m.hash} |->
                                         IF h = m.hash THEN t ELSE @[h]]]
    /\ UNCHANGED <<coreVars, blxr, fiberSrc, blockBench>>

\* main: time.Sleep(time.Second), os.Create (log.Fatalln on error), the
\* header row
LegacySleep ==
    /\ legacy.pc = "sleep"
    /\ \E err \in BOOLEAN :
          legacy' = [legacy EXCEPT !.pc = IF err THEN "fatal" ELSE "iterating"]
    /\ UNCHANGED <<coreVars, blxr, fiberSrc, blockBench>>

\* main: the two nested range loops and the printed results; sum/entries is
\* an integer division, which panics when no hash is in both maps
LegacyResults ==
    /\ legacy.pc = "iterating"
    /\ LET both == DOMAIN legacy.fiberMap \cap DOMAIN legacy.blxrMap
           diff == [h \in both |-> legacy.blxrMap[h] - legacy.fiberMap[h]]
           entries == Cardinality(both)
           sum == SumOver(diff, both)
           fiberWon == Cardinality({h \in both : diff[h] > 0})
       IN  legacy' =
             IF entries = 0 THEN [legacy EXCEPT !.pc = "panic"]
             ELSE [legacy EXCEPT
                      !.pc = "done",
                      !.out = <<[rows |-> diff, average |-> IntDiv(sum, entries),
                                 fiberWon |-> fiberWon, blxrWon |-> entries - fiberWon]>>]
    /\ UNCHANGED <<coreVars, blxr, fiberSrc, blockBench>>

NextLegacy ==
    \/ LegacyMain
    \/ \E c \in {"fiber", "blxr"} : LegacyDeadline(c)
    \/ runFiberConnect
    \/ LegacyFiberOffer
    \/ runFiberReceive
    \/ runBloxrouteDial
    \/ runBloxrouteSelect
    \/ runBloxrouteRead
    \/ LegacySleep
    \/ LegacyResults

SpecLegacy == InitComponent /\ [][NextLegacy]_vars

\* Every step of the program and the two deadlines are taken in time; the
\* arrival of a transaction or of a WebSocket message is up to the network.
FairSpecLegacy ==
    /\ SpecLegacy
    /\ WF_vars(LegacyMain)
    /\ \A c \in {"fiber", "blxr"} : WF_vars(LegacyDeadline(c))
    /\ WF_vars(runFiberConnect)
    /\ WF_vars(runFiberReceive)
    /\ WF_vars(runBloxrouteDial)
    /\ WF_vars(runBloxrouteSelect)
    /\ WF_vars(LegacySleep)
    /\ WF_vars(LegacyResults)


\* ---------------------------------------------------------- BlockBenchmarker
\* the timestamps the sources give their block observations
BlockClock == {ClockStart, ClockStart + ClockStep}

\* ClickhouseSink.Init(ty) when no Exec fails: it sets c.ty and prepares the
\* two batches of ty (each `for` loop ends with a prepared batch); the two
\* batches of the other type stay as NewClickhouseClient left them
ClickhouseInit(c, ty) ==
    CASE ty = "transactions" ->
           [c EXCEPT !.ty = ty, !.observationRowBatch = FreshBatch,
                     !.statsBatch = FreshBatch]
      [] ty = "blocks" ->
           [c EXCEPT !.ty = ty, !.blockObservationRowBatch = FreshBatch,
                     !.blockStatsBatch = FreshBatch]

\* setupSink(config, sinks.Blocks) when it returns no error: the nil Sink
\* for "none", a CsvSink with both writers, each with the header that
\* csv.NewCsvSink(fileName, sinks.Blocks) has written, or a ClickhouseSink
\* after Init(sinks.Blocks)
blockSetupSink(b, kind) ==
    CASE kind = "csv" ->
           [b EXCEPT !.sink = kind,
                     !.obsWriter = <<[header |-> <<"block_hash", "fiber_timestamp",
                                                   "other_timestamp", "diff",
                                                   "tx_count">>]>>,
                     !.statsWriter = <<[header |-> <<"mean", "p50", "min", "max">>]>>]
      [] kind = "clickhouse" ->
           [b EXCEPT !.sink = kind, !.ch = ClickhouseInit(NewClickhouseClient, "blocks")]
      [] OTHER -> [b EXCEPT !.sink = kind]

\* Run's loop head `i < b.config.intervalCount` for the value k of i, and
\* runInterval up to its select: fresh maps and a new timer; after the loop,
\* "Benchmark complete"
blockEnterLoop(b, k) ==
    IF k < b.intervalCount
    THEN [b EXCEPT !.pc = "select", !.i = k, !.timerFired = FALSE,
                   !.fiberMap = EmptyMap, !.otherMap = EmptyMap, !.log = <<>>,
                   !.differences = <<>>, !.diffMap = EmptyMap, !.printed = <<>>,
                   !.stats = <<>>]
    ELSE [b EXCEPT !.pc = "done", !.i = k]

\* runBlockBenchmark and Run up to the loop.  config.validate rejects the
\* sink setting (logger.Fatal); fiberSource.Connect or setupSink returns an
\* error, which runBlockBenchmark returns; setupSink returns the nil Sink
\* for "none"; otherSource stays the nil BlockSource unless the bloxroute
\* endpoint and key are set, and Run calls
\* b.otherSource.SubscribeBlockObservations() on it, which calls log.Fatal
\* when the bloxroute subscription fails
runBlockBenchmark ==
    /\ blockBench.pc = "main"
    /\ \E kind \in SinkKinds \cup {InvalidSink}, missing, other \in BOOLEAN,
          n \in 0..MaxIntervals, connectErr, sinkErr, subscribeErr \in BOOLEAN :
          LET b == [blockBench EXCEPT !.sink = kind, !.logMissing = missing,
                                      !.intervalCount = n]
          IN  blockBench' =
                CASE kind = InvalidSink -> [b EXCEPT !.pc = "fatal"]
                  [] kind # InvalidSink /\ connectErr -> [b EXCEPT !.pc = "exit"]
                  [] kind \notin {InvalidSink, "none"} /\ ~connectErr /\ sinkErr ->
                       [b EXCEPT !.pc = "exit"]
                  [] OTHER ->
                       IF ~other THEN [blockSetupSink(b, kind) EXCEPT
                                          !.pc = "panic", !.panic = "nil otherSource"]
                       ELSE IF subscribeErr
                            THEN [blockSetupSink(b, kind) EXCEPT !.pc = "fatal"]
                       ELSE blockEnterLoop(blockSetupSink(b, kind), 0)
    /\ UNCHANGED <<coreVars, blxr, fiberSrc, legacy>>

\* the runtime sends on timer.C once b.config.interval has elapsed
BlockTimerFire ==
    /\ blockBench.pc = "select"
    /\ ~blockBench.timerFired
    /\ blockBench' = [blockBench EXCEPT !.timerFired = TRUE]
    /\ UNCHANGED <<coreVars, blxr, fiberSrc, legacy>>

\* what a receive does to the map of its source and to the log
blockStore(b, which, source, obs) ==
    IF obs.Hash \in DOMAIN b[which]
    THEN [b EXCEPT !.log = Append(@, [level |-> "warn",
                                      msg |-> "Duplicate hash during interval",
                                      hash |-> obs.Hash, source |-> source]),
                   !.reads = @ + 1]
    ELSE [b EXCEPT ![which] = storeFirst(@, obs), !.reads = @ + 1]

\* case fiberObs := <-fiberStream
BlockFiberCase ==
    /\ blockBench.pc = "select"
    /\ blockBench.reads < MaxBlockReads
    /\ \E h \in Hashes, t \in BlockClock :
          blockBench' = blockStore(blockBench, "fiberMap", "fiber", Observation(h, t))
    /\ UNCHANGED <<coreVars, blxr, fiberSrc, legacy>>

\* case otherObs := <-otherStream
BlockOtherCase ==
    /\ blockBench.pc = "select"
    /\ blockBench.reads < MaxBlockReads
    /\ \E h \in Hashes, t \in BlockClock :
          blockBench' = blockStore(blockBench, "otherMap", "other", Observation(h, t))
    /\ UNCHANGED <<coreVars, blxr, fiberSrc, legacy>>

\* types.BlockObservationRow
BlockObservationRow(hash, fiberTs, otherTs, difference) ==
    [BlockHash |-> hash, FiberTimestamp |-> fiberTs, OtherTimestamp |-> otherTs,
     Difference |-> difference]

\* if b.sink != nil { b.sink.RecordBlockObservationRow(row) }: the CsvSink
\* writes the record to obsWriter; the ClickhouseSink calls
\* c.blockObservationRowBatch.AppendStruct(row), which panics on a nil batch.
\* acc.rows are the rows the sink has taken in this interval.
blockRecord(b, acc, row) ==
    CASE b.sink = "none" -> acc
      [] b.sink = "clickhouse" /\ b.ch.blockObservationRowBatch.nil ->
           [acc EXCEPT !.panic = "RecordBlockObservationRow: nil blockObservationRowBatch"]
      [] OTHER -> [acc EXCEPT !.rows = Append(@, row)]

\* a hash that fiber alone saw counted as a difference of zero
blockClassifyZeroDiff(b, acc, hash) ==
    LET otherSaw == hash \in DOMAIN b.otherMap
        fiberTs == b.fiberMap[hash].Timestamp
        otherTs == IF otherSaw THEN b.otherMap[hash].Timestamp ELSE 0
        micro == IF otherSaw THEN microDiff(fiberTs, otherTs) ELSE 0
    IN  blockRecord(b,
            [acc EXCEPT
                !.diffMap = [h \in DOMAIN @ \cup {hash} |->
                                 IF h = hash THEN Milli(micro) ELSE @[h]],
                !.differences = Append(@, Milli(micro))],
            BlockObservationRow(hash, fiberTs, otherTs, micro))

\* the body of `for hash, fiberObs := range fiberMap`
blockClassify(b, acc, hash) ==
    LET otherSaw == hash \in DOMAIN b.otherMap
        fiberTs == b.fiberMap[hash].Timestamp
        otherTs == IF otherSaw THEN b.otherMap[hash].Timestamp ELSE 0
    IN  IF otherSaw
        THEN LET micro == microDiff(fiberTs, otherTs)
                 milliDiff == Milli(micro)
             IN  blockRecord(b,
                     [acc EXCEPT
                         !.diffMap = [h \in DOMAIN @ \cup {hash} |->
                                          IF h = hash THEN milliDiff ELSE @[h]],
                         !.differences = Append(@, milliDiff)],
                     BlockObservationRow(hash, fiberTs, otherTs, micro))
        ELSE blockRecord(b,
                 [acc EXCEPT
                     !.warnings = IF b.logMissing
                                  THEN Append(@, [level |-> "warn",
                                                  msg |-> "Fiber saw block but other did not",
                                                  hash |-> hash])
                                  ELSE @],
                 BlockObservationRow(hash, fiberTs, 0, 0))

\* `for hash, fiberObs := range fiberMap`, visiting the hashes in the order
\* `order`; a panic in the body ends it
RECURSIVE rangeFiberMap(_, _, _)
rangeFiberMap(b, order, acc) ==
    IF order = <<>> \/ acc.panic # "none" THEN acc
    ELSE rangeFiberMap(b, Tail(order), blockClassify(b, acc, Head(order)))

\* return buildBlockObservationStats(differences): the statistics row of the
\* difference list and the first error of the stats calls
buildBlockObservationStats(diffs) == buildObservationStats(diffs)

\* BlockBenchmarker.processIntervalResults for one iteration order of
\* fiberMap: the range loop, the totals (printed unless the sink is
\* clickhouse), printStats and the (stats, err) it returns
blockProcessIntervalResults(b, order) ==
    LET acc == rangeFiberMap(b, order, [diffMap |-> EmptyMap, differences |-> <<>>,
                                        rows |-> <<>>, warnings |-> <<>>,
                                        panic |-> "none"])
    IN  [diffMap |-> acc.diffMap,
         differences |-> acc.differences,
         rows |-> acc.rows,
         warnings |-> acc.warnings,
         panic |-> acc.panic,
         printed |-> [totals |-> IF b.sink # "clickhouse"
                                 THEN Some([fiber |-> Cardinality(DOMAIN b.fiberMap),
                                            other |-> Cardinality(DOMAIN b.otherMap)])
                                 ELSE None,
                      stats |-> printStats(acc.differences)],
         stats |-> buildBlockObservationStats(acc.differences)]

\* runInterval has returned to Run: the rows of the interval are where the
\* sink's RecordBlockObservationRow put them (obsWriter, or
\* blockObservationRowBatch); stats, err := b.runInterval(...);
\* if err != nil { b.logger.Error().Err(err).Msg("Failed to run interval") }
blockIntervalReturns(b, r) ==
    [b EXCEPT
        !.obsWriter = IF b.sink = "csv" THEN @ \o r.rows ELSE @,
        !.ch.blockObservationRowBatch.rows =
            IF b.sink = "clickhouse" THEN @ \o r.rows ELSE @,
        !.diffMap = r.diffMap,
        !.differences = r.differences,
        !.printed = Some(r.printed),
        !.stats = Some(r.stats),
        !.log = (@ \o r.warnings) \o failedToRunInterval(r.stats)]

\* b.sink.RecordBlockStats(&stats): a call on the nil Sink panics; the
\* CsvSink writes the record to statsWriter; the ClickhouseSink calls
\* c.blockStatsBatch.AppendStruct(stats), which panics on a nil batch
RecordBlockStats(b) ==
    LET row == [Interval |-> b.i + 1, row |-> b.stats[1].row]
    IN  CASE b.sink = "none" ->
               [b EXCEPT !.pc = "panic", !.panic = "RecordBlockStats: nil Sink"]
          [] b.sink = "csv" -> [b EXCEPT !.statsWriter = Append(@, row)]
          [] b.sink = "clickhouse" /\ b.ch.blockStatsBatch.nil ->
               [b EXCEPT !.pc = "panic", !.panic = "RecordBlockStats: nil blockStatsBatch"]
          [] OTHER -> [b EXCEPT !.ch.blockStatsBatch.rows = Append(@, row)]

\* ClickhouseSink.Flush: c.observationRowBatch.Rows() is evaluated for the
\* Debug line before the switch on c.ty, whatever the type of the sink, and
\* panics on a nil batch.  Then wg.Add(2), and the arm of c.ty starts its two
\* goroutines; each begins with IsSent() on its batch, which panics on a
\* nil batch (with both nil, either goroutine is the one that panics).  A
\* sink whose ty is neither type starts no goroutine and waits in wg.Wait()
\* for ever.  Otherwise each batch of c.ty is sent and prepared again and
\* Flush returns nil.  The goroutines share Flush's err, so that one whose
\* PrepareBatch failed can leave its loop on the nil err of the other one's
\* success, with a nil batch; the goroutine whose success it was leaves a
\* prepared batch.
\* The set of the sinks Flush can leave, each with the way Flush ended:
\* "returned", "blocked", or the panic.
ClickhouseFlush(c) ==
    LET flushed == {<<FreshBatch, FreshBatch>>, <<NilBatch, FreshBatch>>,
                    <<FreshBatch, NilBatch>>}
        nilOf(names) == {n \in names : c[n].nil}
        arm(names) ==
            IF nilOf({names[1], names[2]}) # {}
            THEN {[sink |-> c, end |-> "Flush: nil " \o n] :
                     n \in nilOf({names[1], names[2]})}
            ELSE {[sink |-> [c EXCEPT ![names[1]] = f[1], ![names[2]] = f[2]],
                   end |-> "returned"] : f \in flushed}
    IN  IF c.observationRowBatch.nil
        THEN {[sink |-> c, end |-> "Flush: nil observationRowBatch"]}
        ELSE CASE c.ty = "transactions" -> arm(<<"observationRowBatch", "statsBatch">>)
               [] c.ty = "blocks" ->
                    arm(<<"blockObservationRowBatch", "blockStatsBatch">>)
               [] OTHER -> {[sink |-> c, end |-> "blocked"]}

\* b.sink.Flush() and the next loop head.  CsvSink.Flush flushes both
\* writers and returns nil.
blockFlush(b) ==
    CASE b.sink = "csv" -> {blockEnterLoop(b, b.i + 1)}
      [] b.sink = "clickhouse" ->
           {CASE f.end = "returned" -> blockEnterLoop([b EXCEPT !.ch = f.sink], b.i + 1)
              [] f.end = "blocked" -> [b EXCEPT !.ch = f.sink, !.pc = "blocked"]
              [] OTHER -> [b EXCEPT !.ch = f.sink, !.pc = "panic", !.panic = f.end] :
               f \in ClickhouseFlush(b.ch)}

\* case <-timer.C: break loop, return b.processIntervalResults(fiberMap,
\* otherMap), and Run from `if err != nil` to the next loop head:
\* b.sink.RecordBlockStats(&stats) and b.sink.Flush(), both without a nil
\* check.  Go ranges over fiberMap in an unspecified order.  A panic inside
\* the range loop leaves the warnings logged before it and nothing else.
BlockTimerCase ==
    /\ blockBench.pc = "select"
    /\ blockBench.timerFired
    /\ \E order \in Perms(DOMAIN blockBench.fiberMap) :
          LET b == [blockBench EXCEPT !.timerFired = FALSE]
              r == blockProcessIntervalResults(b, order)
              recorded == RecordBlockStats(blockIntervalReturns(b, r))
          IN  CASE r.panic # "none" ->
                     blockBench' = [b EXCEPT !.log = @ \o r.warnings,
                                             !.pc = "panic", !.panic = r.panic]
                [] r.panic = "none" /\ recorded.pc = "panic" ->
                     blockBench' = recorded
                [] OTHER -> blockBench' \in blockFlush(recorded)
    /\ UNCHANGED <<coreVars, blxr, fiberSrc, legacy>>

NextBlockBench ==
    \/ runBlockBenchmark
    \/ BlockTimerFire
    \/ BlockFiberCase
    \/ BlockOtherCase
    \/ BlockTimerCase

SpecBlockBench == InitComponent /\ [][NextBlockBench]_vars

\* ------------------------------------------------------------------ claims
\* the hashes of a sequence of observations
HashesOf(obs) == {obs[k].Hash : k \in 1..Len(obs)}

\* the first observation of hash h in a sequence that holds one
FirstOf(obs, h) ==
    obs[CHOOSE k \in 1..Len(obs) :
            /\ obs[k].Hash = h
            /\ \A j \in 1..(k - 1) : obs[j].Hash # h]

DuplicateWarnings(source) ==
    SelectSeq(logger, LAMBDA l : l.msg = "Duplicate hash during interval"
                                 /\ l.source = source)

Occurrences(obs, h) == Cardinality({k \in 1..Len(obs) : obs[k].Hash = h})

FirstWins(m, obs, source) ==
    /\ DOMAIN m = HashesOf(obs)
    /\ \A h \in DOMAIN m : m[h] = FirstOf(obs, h)
    /\ \A h \in Hashes :
          Cardinality({k \in 1..Len(DuplicateWarnings(source)) :
                          DuplicateWarnings(source)[k].hash = h})
             = (IF h \in HashesOf(obs) THEN Occurrences(obs, h) - 1 ELSE 0)

\* C1: within an interval each source's map holds, for every hash received
\* from that source's channel, exactly the first observation received with
\* that hash, and every later observation with the same hash has produced
\* exactly one "Duplicate hash during interval" warning and no error.
C1_FirstArrivalWins ==
    pc \in {"select", "flush", "panic"} =>
        /\ FirstWins(fiberMap, reads.fiber, "fiber")
        /\ FirstWins(otherMap, reads.other, "other")
        /\ \A k \in 1..Len(logger) :
              logger[k].msg = "Duplicate hash during interval" => logger[k].level = "warn"

\* a hash was received twice from the fiber channel, with different timestamps
C1_Witness ==
    /\ pc = "select"
    /\ Len(reads.fiber) = 2
    /\ reads.fiber[1].Hash = reads.fiber[2].Hash
    /\ reads.fiber[1].Timestamp # reads.fiber[2].Timestamp
    /\ Len(DuplicateWarnings("fiber")) = 1

\* C2: once the interval's timer has fired, the select loop ends and
\* processIntervalResults runs (the interval prints its statistics), whatever
\* the channels hold.
C2_LoopTerminates == [](pc = "select" /\ timerFired => <>(printed # None))

\* the timer case was taken while all three channels had an item ready
C2_Witness ==
    /\ printed # None
    /\ fiberStream # <<>>
    /\ otherStream # <<>>
    /\ payloadStream # <<>>
    /\ pc = "panic"

\* the interval's processIntervalResults has run
Processed == printed # None /\ pc \in {"flush", "panic"}

\* the hashes of the execution payloads read in the interval
Confirmed == UNION {reads.payload[k].Transactions : k \in 1..Len(reads.payload)}

Observed == DOMAIN fiberMap \cup DOMAIN otherMap

BothSaw == DOMAIN fiberMap \cap DOMAIN otherMap

MissingWarnings == SelectSeq(logger, LAMBDA l : l.msg = "saw transaction but the other did not")

\* the sink still holds every observation row recorded in the first interval:
\* the Clickhouse batch has not been replaced by a fresh one
RowsKept == i = 0 /\ (sink = "csv" \/ flusher.obs = "send")

\* the observation rows the sink holds during the first interval
RecordedRows ==
    IF sink = "clickhouse"
    THEN tables.confirmed_observations \o observationRowBatch.rows
    ELSE SelectSeq(obsWriter, LAMBDA r : "TxHash" \in DOMAIN r)

FiberEarlier(hs) == {h \in hs : fiberMap[h].Timestamp < otherMap[h].Timestamp}

\* C3: with cross-check enabled, a hash observed in the interval that no
\* payload read in the interval contains has no difference, no observation
\* row and no missing-transaction warning; the difference list and the win
\* ratio are those of the confirmed hashes both sources saw; the printed
\* totals still count every observed hash.
C3_UnconfirmedExcluded ==
    crossCheck /\ Processed =>
        /\ \A h \in Observed \ Confirmed :
              /\ h \notin DOMAIN diffMap
              /\ \A k \in 1..Len(MissingWarnings) : MissingWarnings[k].hash # h
              /\ i = 0 => \A k \in 1..Len(RecordedRows) : RecordedRows[k].TxHash # h
        /\ Len(differences) = Cardinality(BothSaw \cap Confirmed)
        /\ printed[1].stats.wonRatio =
              FloatDiv(Cardinality(FiberEarlier(BothSaw \cap Confirmed)),
                       Cardinality(BothSaw \cap Confirmed))
        /\ printed[1].totals # None =>
              /\ printed[1].totals[1].fiber = Cardinality(DOMAIN fiberMap)
              /\ printed[1].totals[1].other = Cardinality(DOMAIN otherMap)

\* both sources saw a hash that no payload confirmed, and the totals printed
\* count it
C3_Witness ==
    /\ crossCheck /\ Processed
    /\ reads.payload # <<>>
    /\ BothSaw \ Confirmed # {}
    /\ printed[1].totals # None
    /\ printed[1].totals[1].fiber = 1

\* the warnings and rows of the hashes only one source saw
OnlyOneSaw(who) ==
    IF who = "fiber" THEN (truthMap \cap DOMAIN fiberMap) \ DOMAIN otherMap
    ELSE (truthMap \cap DOMAIN otherMap) \ DOMAIN fiberMap

\* C4: a hash of the universe that only one source saw adds no element to the
\* difference list: the list has one element per universe hash in both maps;
\* the hash takes the only-fiber or only-other branch (its warning is logged
\* when logMissing is set, its row has a zero timestamp for the other side).
C4_OnlyOneSawNotMerged ==
    Processed =>
        /\ Len(differences) = Cardinality(truthMap \cap BothSaw)
        /\ DOMAIN diffMap = truthMap \cap BothSaw
        /\ \A who \in {"fiber", "other"} : \A h \in OnlyOneSaw(who) :
              /\ h \notin DOMAIN diffMap
              /\ logMissing =>
                    Cardinality({k \in 1..Len(MissingWarnings) :
                                    /\ MissingWarnings[k].hash = h
                                    /\ MissingWarnings[k].source = who}) = 1
              /\ RowsKept =>
                    \E k \in 1..Len(RecordedRows) :
                        /\ RecordedRows[k].TxHash = h
                        /\ RecordedRows[k].Difference = 0
                        /\ (who = "fiber") = (RecordedRows[k].OtherTimestamp = 0)
                        /\ (who = "other") = (RecordedRows[k].FiberTimestamp = 0)

\* a confirmed hash that fiber alone saw was processed, and logged as missing
C4_Witness ==
    /\ Processed
    /\ OnlyOneSaw("fiber") # {}
    /\ differences = <<>>
    /\ Len(MissingWarnings) = 1

\* C5: for every hash of the universe that both sources saw, the difference
\* is (the other source's first timestamp - fiber's first timestamp) / 1000,
\* positive exactly when fiber's timestamp is strictly earlier, and the
\* difference list holds these values and no other.
C5_DifferenceSign ==
    Processed =>
        /\ \A h \in DOMAIN diffMap :
              LET fiberTs == FirstOf(reads.fiber, h).Timestamp
                  otherTs == FirstOf(reads.other, h).Timestamp
              IN  /\ diffMap[h] = Rat(otherTs - fiberTs, 1000)
                  /\ RatGtZero(diffMap[h]) <=> fiberTs < otherTs
        /\ \A k \in 1..Len(differences) : \E h \in DOMAIN diffMap : differences[k] = diffMap[h]
        /\ \A h \in DOMAIN diffMap : \E k \in 1..Len(differences) : differences[k] = diffMap[h]

\* fiber saw a confirmed hash strictly before the other source did
C5_Witness ==
    /\ Processed
    /\ \E h \in DOMAIN diffMap :
          /\ fiberMap[h].Timestamp < otherMap[h].Timestamp
          /\ RatGtZero(diffMap[h])

\* count(d > 0 for d in D) / len(D)
WinRatio(D) == Rat(Cardinality({k \in 1..Len(D) : RatGtZero(D[k])}), Len(D))

\* C6: for a non-empty difference list D, FiberWon of buildObservationStats
\* and wonRatio of printStats both equal count(d > 0 for d in D) / len(D).
C6_WinRatio ==
    pc = "aggregate" /\ stats # None /\ differences # <<>> =>
        /\ printed[1].stats.wonRatio = WinRatio(differences)
        /\ stats[1].row.FiberWon = WinRatio(differences)

\* C7: when the difference list is empty, buildObservationStats returns an
\* error and no win ratio of the interval is NaN.
C7_EmptyIsError ==
    Processed /\ differences = <<>> =>
        /\ stats[1].err # "nil"
        /\ ~IsNaN(printed[1].stats.wonRatio)

\* the stats rows handed to the sink so far
HandedStatsRows ==
    statsBatch.rows \o tables.observation_stats
        \o SelectSeq(obsWriter, LAMBDA r : "Interval" \in DOMAIN r)

\* C8: when buildObservationStats fails for an interval, the failure is logged
\* and no stats row of that interval is handed to the sink.
C8_FailedIntervalSkipped ==
    Processed /\ stats[1].err # "nil" =>
        /\ \E k \in 1..Len(logger) : logger[k].msg = "Failed to run interval"
        /\ \A k \in 1..Len(HandedStatsRows) : HandedStatsRows[k].Interval # i + 1

\* C9: a statistics failure in an interval does not end the run: Run does not
\* stop before "Benchmark complete" in an interval whose statistics failed.
C9_RunNotAborted == ~(pc = "panic" /\ stats # None /\ stats[1].err # "nil")

FlushInFlight == flusher.obs # "idle" \/ flusher.stats # "idle"

Increasing(rows) ==
    \A a, b \in 1..Len(rows) : a < b => rows[a].Interval < rows[b].Interval

\* C10: while an interval's runInterval runs, no Flush is in flight: both
\* goroutines of the previous Flush are done and no batch holds a row; a
\* Flush is in flight only between RecordStats and the next interval, with
\* at most its two goroutines; the stats table receives its rows in interval
\* order, all of them of intervals before the one that is running.
C10_FlushBeforeNextInterval ==
    /\ wg = Cardinality({g \in {"obs", "stats"} : flusher[g] # "idle"})
    /\ FlushInFlight => pc = "flush"
    /\ pc \in {"select", "done"} =>
          /\ wg = 0
          /\ observationRowBatch.rows = <<>> /\ ~observationRowBatch.sent
          /\ statsBatch.rows = <<>> /\ ~statsBatch.sent
          /\ \A k \in 1..Len(tables.observation_stats) :
                tables.observation_stats[k].Interval <= i
    /\ Increasing(tables.observation_stats \o statsBatch.rows) \/ statsBatch.sent

\* the second interval runs after the first one's rows have been sent
C10_Witness ==
    /\ pc = "select"
    /\ i = 1
    /\ sink = "clickhouse"
    /\ Len(tables.observation_stats) = 1
    /\ tables.confirmed_observations # <<>>
    /\ sendFailures = 1

\* C11: once the interval's timer has fired, runInterval receives nothing
\* more from a channel: what the loop has read stays as it is until the loop
\* ends.
C11_NoReadAfterTimer == [][pc = "select" /\ timerFired => reads' = reads]_vars

\* C12: with cross-check disabled the universe is the set of hashes the
\* fiber source observed in the interval: each of them that the other source
\* saw too has a difference, and each that the other source did not see is
\* recorded as missed by the other source.
C12_FiberUniverse ==
    ~crossCheck /\ Processed =>
        \A h \in DOMAIN fiberMap :
            /\ h \in DOMAIN otherMap => h \in DOMAIN diffMap
            /\ h \notin DOMAIN otherMap /\ RowsKept =>
                  \E k \in 1..Len(RecordedRows) :
                      /\ RecordedRows[k].TxHash = h
                      /\ RecordedRows[k].OtherTimestamp = 0

RowsOf(h) == SelectSeq(RecordedRows, LAMBDA r : r.TxHash = h)

\* the classes the interval's outputs put a hash in
ClassesOf(h) ==
    {c \in {"both", "fiber", "other"} :
        \/ c = "both" /\ h \in DOMAIN diffMap
        \/ c = "both" /\ \E k \in 1..Len(RowsOf(h)) :
                             RowsOf(h)[k].FiberTimestamp # 0 /\ RowsOf(h)[k].OtherTimestamp # 0
        \/ c = "fiber" /\ \E k \in 1..Len(RowsOf(h)) :
                             RowsOf(h)[k].FiberTimestamp # 0 /\ RowsOf(h)[k].OtherTimestamp = 0
        \/ c = "other" /\ \E k \in 1..Len(RowsOf(h)) :
                             RowsOf(h)[k].FiberTimestamp = 0 /\ RowsOf(h)[k].OtherTimestamp # 0}

\* C13 as stated: every hash of the universe is in exactly one of the
\* classes both-saw, only-fiber-saw, only-other-saw.
C13_EveryHashClassified ==
    Processed /\ RowsKept => \A h \in truthMap : Cardinality(ClassesOf(h)) = 1

\* C13 amended: every hash of the universe that at least one source observed
\* is in exactly one of the three classes, the one its presence in the two
\* maps tells; a hash of the universe that neither source observed is in no
\* class.
C13_ObservedHashClassified ==
    Processed /\ RowsKept =>
        /\ \A h \in truthMap \cap Observed :
              ClassesOf(h) = {IF h \in BothSaw THEN "both"
                              ELSE IF h \in DOMAIN fiberMap THEN "fiber" ELSE "other"}
        /\ \A h \in truthMap \ Observed : ClassesOf(h) = {}

\* a payload confirmed one hash both sources saw and one that neither saw
C13_Witness ==
    /\ Processed /\ RowsKept
    /\ truthMap \cap BothSaw # {}
    /\ truthMap \ Observed # {}

\* C14: a failing batch send is retried until it succeeds: when Flush has
\* returned for the intervals 1..i, the stats row of each of them has reached
\* the server.
C14_FlushDeliversBatches ==
    sink = "clickhouse" /\ pc \in {"select", "done"} =>
        \A k \in 1..i : \E n \in 1..Len(tables.observation_stats) :
            tables.observation_stats[n].Interval = k

\* C15: a source never waits for the reconciler: while Run is in a sink
\* Flush no execution payload is held by a sender waiting for a receiver,
\* and each observation channel has room for the next observation.
C15_SourceNeverWaits ==
    pc = "flush" =>
        /\ payloadStream = <<>>
        /\ Len(fiberStream) < ChanCap
        /\ Len(otherStream) < ChanCap

\* C16: a receive from a closed stream channel ends the interval's loop, and
\* no entry that comes from such a receive is stored in a map or in the
\* truth set: the zero hash is in none of them, and the loop does not run on
\* after such a receive.
C16_ClosedEndsInterval ==
    /\ 0 \notin DOMAIN fiberMap \cup DOMAIN otherMap \cup truthMap
    /\ ClosedReads > 0 => pc # "select"

\* C17: a configuration error (the other source's endpoint or key missing,
\* or a sink setting that is not valid) is fatal before any stream is opened:
\* in such a run nothing is ever connected or subscribed.
ConfigError == ~otherConfigured \/ sink = InvalidSink

C17_ConfigErrorOpensNothing == ConfigError => opened = {}

\* the hashes of the universe that at least one source observed
Classified == truthMap \cap Observed

\* the detail row C18 expects for a classified hash
ExpectedRow(h) ==
    LET fts == IF h \in DOMAIN fiberMap THEN fiberMap[h].Timestamp ELSE 0
        ots == IF h \in DOMAIN otherMap THEN otherMap[h].Timestamp ELSE 0
    IN  [TxHash |-> h, FiberTimestamp |-> fts, OtherTimestamp |-> ots,
         Difference |-> IF h \in BothSaw THEN ots - fts ELSE 0]

\* C18: with a sink, processIntervalResults records exactly one detail row
\* for every classified hash and none for any other hash: the row of a hash
\* both saw has both timestamps and their difference (other - fiber, in
\* microseconds), the row of a hash only fiber saw has OtherTimestamp = 0 and
\* Difference = 0, the row of a hash only the other saw has FiberTimestamp = 0
\* and Difference = 0.
C18_OneRowPerClassifiedHash ==
    Processed /\ RowsKept /\ ~SinkIsNil =>
        /\ \A h \in Classified : RowsOf(h) = <<ExpectedRow(h)>>
        /\ Len(RecordedRows) = Cardinality(Classified)

\* a sink holds the two rows of an interval in which fiber alone saw one
\* confirmed hash and the other source alone saw another
C18_Witness ==
    /\ Processed /\ RowsKept /\ ~SinkIsNil
    /\ OnlyOneSaw("fiber") # {}
    /\ OnlyOneSaw("other") # {}
    /\ Len(RecordedRows) = 2

\* no hash occurs twice in a sequence of observations
UniqueHashes(obs) == \A a, b \in 1..Len(obs) : obs[a].Hash = obs[b].Hash => a = b

\* the set of the events of a sequence of observations
EventsOf(obs) == {obs[k] : k \in 1..Len(obs)}

\* the map that a set of events with unique hashes determines
MapOfEvents(events) ==
    [h \in {o.Hash : o \in events} |-> CHOOSE o \in events : o.Hash = h]

\* C19: when no source delivers a hash twice, the fiber map and the other
\* map at the close of the window are determined by the set of the events
\* read from each channel: the order in which the loop received them, within
\* a channel and between the two channels, does not matter.
C19_InterleavingIndependent ==
    Processed /\ UniqueHashes(reads.fiber) /\ UniqueHashes(reads.other) =>
        /\ fiberMap = MapOfEvents(EventsOf(reads.fiber))
        /\ otherMap = MapOfEvents(EventsOf(reads.other))

\* the window closed after both sources delivered the same hash, the other
\* source with the earlier timestamp, and no source delivered it twice
C19_Witness ==
    /\ Processed
    /\ UniqueHashes(reads.fiber) /\ UniqueHashes(reads.other)
    /\ \E h \in BothSaw : otherMap[h].Timestamp < fiberMap[h].Timestamp

\* the scenario of C20: one interval, cross-check on, the loop read fiber's
\* observation of hash 1 at 1000 microseconds, the other source's at 1500
\* microseconds and a payload that contains hash 1, and nothing else from the
\* two sources
C20_Scenario ==
    /\ intervalCount = 1
    /\ crossCheck
    /\ Processed
    /\ reads.fiber = <<Observation(1, 1000)>>
    /\ reads.other = <<Observation(1, 1500)>>
    /\ 1 \in Confirmed

\* C20: in that scenario the difference list is exactly [0.5 ms], and the
\* stats row is built without error with win ratio 1.0 (the printed win
\* ratio is 1.0 too).
C20_EndToEnd ==
    C20_Scenario =>
        /\ differences = <<Rat(1, 2)>>
        /\ stats[1].err = "nil"
        /\ stats[1].row.FiberWon = Rat(1, 1)
        /\ printed[1].stats.wonRatio = Rat(1, 1)

\* the scenario has run and its statistics have been built
C20_Witness == C20_Scenario /\ stats # None /\ Len(differences) = 1

\* C21: BloxrouteSource.Close completes normally, and once it has been called
\* the reader goroutines of the subscriptions made see done: a reader that
\* has run its select again has closed its channel and its connection and
\* returned.
C21_CloseStopsReaders ==
    blxr.close # "none" =>
        /\ blxr.close = "returned"
        /\ blxr.panic = "none"

\* the goroutines of the subscriptions made have all finished, without a panic
FiberQuiet ==
    /\ FiberAlive
    /\ \A c \in Streams : fiberSrc.closer[c] \in {"none", "returned"}
    /\ fiberSrc.observer.pc \in {"none", "returned"}

\* C22: once Close has been called and the goroutines it wakes have run,
\* every channel the subscriptions returned is closed: the transaction
\* channel, the payload channel and the observation channel.
C22_ChannelsClosed ==
    fiberSrc.close = "returned" /\ FiberQuiet =>
        /\ \A c \in Streams : fiberSrc.ch[c] \in {"none", "closed"}
        /\ fiberSrc.observer.pc = "returned" => fiberSrc.hashCh.closed

\* C23: once the DURATION deadline of runFiber's context has passed, runFiber
\* returns and main goes on to the results (or the process has ended),
\* whether or not a stream delivers another transaction.
C23_RunsForDuration ==
    (legacy.pc = "runFiber" /\ legacy.ctx.fiber = "done") ~> (legacy.pc # "runFiber")

\* what a BloxrouteSource reader has handed over is what it read and decoded
\* without error, in order, and every failure is in its log
BlxrFailedDropped ==
    /\ \A r \in Readers : \A k \in 1..Len(blxr.received[r]) : blxr.received[r][k] \in Hashes
    /\ \A r \in Readers :
          Len(blxr.received[r]) + Len(blxr.reader[r].msg)
              + Len(SelectSeq(blxr.dropped, LAMBDA d : d.reader = r)) = blxr.reader[r].read
    /\ Len(blxr.log) = Len(blxr.dropped)

\* C24: a Bloxroute message that fails to be read or decoded is logged and
\* dropped: nothing is recorded for it (no observation is handed over by a
\* BloxrouteSource reader, no entry is written to the single-shot program's
\* map), and every such failure is in the log.
C24_FailedMessageDropped ==
    /\ BlxrFailedDropped
    /\ 0 \notin DOMAIN legacy.blxrMap

\* C25: the observations file of the CSV sink starts with the header
\* tx_hash,fiber_timestamp,other_timestamp,diff,from,to,calldata_size and holds
\* detail rows only: after any RecordObservationRow and RecordStats calls no
\* stats row is in it.
C25_CsvFilesApart ==
    sink = "csv" /\ obsWriter # <<>> =>
        /\ obsWriter[1] = ObservationsHeader
        /\ \A k \in 2..Len(obsWriter) : "TxHash" \in DOMAIN obsWriter[k]

\* C26: for a non-empty difference list, the P50 of the stats row that
\* buildObservationStats returns equals the median that printStats computes
\* for the same list.
C26_P50IsMedian ==
    differences # <<>> /\ printed # None /\ stats # None =>
        stats[1].row.P[50] = printed[1].stats.Median

\* C27: for the differences [10, 20, 30, 40] the stats row is built without
\* error with mean 25, min 10, max 40 and p25 = 17.5, and the median is 25.
C27_Fixture ==
    differences = FixtureDifferences /\ printed # None /\ stats # None =>
        /\ stats[1].err = "nil"
        /\ stats[1].row.Mean = Rat(25, 1)
        /\ stats[1].row.Min = Rat(10, 1)
        /\ stats[1].row.Max = Rat(40, 1)
        /\ stats[1].row.P[25] = Rat(35, 2)
        /\ printed[1].stats.Median = Rat(25, 1)

\* C28: the aggregation of a one-element difference list returns an error
\* (and so no stats row is built for the interval).
C28_SingleElementIsError ==
    Len(differences) = 1 /\ stats # None => stats[1].err # "nil"

\* C29: every runInterval call starts with its own empty fiber, other and
\* truth maps, so nothing of interval i is in the maps of interval i+1; the
\* first observation a source delivers in an interval is stored in that
\* interval's map and raises no duplicate warning, whatever the intervals
\* before have seen.
C29_MapsOwnedByInterval ==
    [][/\ pc # "select" /\ pc' = "select" =>
              fiberMap' = EmptyMap /\ otherMap' = EmptyMap /\ truthMap' = {}
       /\ pc = "select" /\ reads.fiber = <<>> /\ reads'.fiber # <<>> =>
              /\ fiberMap'[reads'.fiber[1].Hash] = reads'.fiber[1]
              /\ DuplicateWarnings("fiber")' = <<>>
       /\ pc = "select" /\ reads.other = <<>> /\ reads'.other # <<>> =>
              /\ otherMap'[reads'.other[1].Hash] = reads'.other[1]
              /\ DuplicateWarnings("other")' = <<>>]_vars

\* the second interval has received hash 1 from the fiber source as its
\* first observation without a warning, and the first interval received it
\* too: the fiber source has sent twice (the first hash sent is hash 1), the
\* other source never, the channel is empty and the first interval read one
\* of the two
C29_Witness ==
    /\ i = 1
    /\ pc = "select"
    /\ produced = [fiber |-> 2, other |-> 0, payload |-> 0]
    /\ fiberStream = <<>>
    /\ Len(reads.fiber) = 1
    /\ reads.fiber[1].Hash = 1
    /\ known = 1
    /\ fiberMap = MapOfEvents(EventsOf(reads.fiber))
    /\ DuplicateWarnings("fiber") = <<>>

\* C30: when Flush has returned, the two batches of the sink are fresh
\* unsent batches from PrepareBatch, so the next RecordObservationRow,
\* RecordStats and Flush (with or without rows) act on fresh batches.
C30_FreshBatchesAfterFlush ==
    sink = "clickhouse" /\ ~FlushInFlight =>
        observationRowBatch = FreshBatch /\ statsBatch = FreshBatch

\* the first interval of the block benchmark has been processed: Run is in
\* it, or has left the loop after it
BlockProcessed == blockBench.printed # <<>> /\ blockBench.i <= 1

\* the detail rows the sink of the block benchmark has taken
BlockRows ==
    IF blockBench.sink = "csv" THEN Tail(blockBench.obsWriter)
    ELSE blockBench.ch.blockObservationRowBatch.rows

BlockRowsOf(h) == SelectSeq(BlockRows, LAMBDA r : r.BlockHash = h)

BlockMissingWarnings(h) ==
    SelectSeq(blockBench.log,
              LAMBDA l : l.msg = "Fiber saw block but other did not" /\ l.hash = h)

\* C31: in the block benchmark the universe is the fiber map: a configured
\* sink gets exactly one row per hash fiber saw; the difference list has one
\* element per hash both saw; a hash only fiber saw has a row with zero
\* other timestamp and zero difference, its warning when logMissing is set,
\* and no difference; a hash only the other source saw has no row, no
\* difference and no warning.
C31_BlockUniverseIsFiberMap ==
    BlockProcessed =>
        LET b == blockBench
            F == DOMAIN b.fiberMap
            O == DOMAIN b.otherMap
        IN  /\ DOMAIN b.diffMap = F \cap O
            /\ Len(b.differences) = Cardinality(F \cap O)
            /\ \A h \in F \cap O :
                  b.diffMap[h] = Milli(b.otherMap[h].Timestamp - b.fiberMap[h].Timestamp)
            /\ b.sink # "none" =>
                  /\ Len(BlockRows) = Cardinality(F)
                  /\ \A h \in F : Len(BlockRowsOf(h)) = 1
            /\ \A h \in F \ O :
                  /\ b.sink # "none" =>
                        /\ BlockRowsOf(h)[1].OtherTimestamp = 0
                        /\ BlockRowsOf(h)[1].Difference = 0
                        /\ BlockRowsOf(h)[1].FiberTimestamp = b.fiberMap[h].Timestamp
                  /\ Len(BlockMissingWarnings(h)) = (IF b.logMissing THEN 1 ELSE 0)
            /\ \A h \in O \ F :
                  /\ BlockRowsOf(h) = <<>>
                  /\ BlockMissingWarnings(h) = <<>>

\* an interval with a configured sink and logMissing was processed in which
\* fiber alone saw one block and the other source alone saw another
C31_Witness ==
    /\ BlockProcessed
    /\ blockBench.sink # "none"
    /\ blockBench.logMissing
    /\ DOMAIN blockBench.fiberMap \ DOMAIN blockBench.otherMap # {}
    /\ DOMAIN blockBench.otherMap \ DOMAIN blockBench.fiberMap # {}
    /\ Len(BlockRows) = 1

\* C32: with no sink configured (the nil Sink) Run calls no method on the
\* sink: no interval ends in the panic of a call on the nil interface.
C32_NilSinkNeverCalled == ~(SinkIsNil /\ printed # None /\ pc = "panic")

\* the second interval of a cross-check run has been processed; both sources
\* delivered hash 1 once and the first interval read both observations; the
\* one payload, which holds hash 1, was read in the second interval
C33_Scenario ==
    /\ crossCheck
    /\ i = 1
    /\ Processed
    /\ produced = [fiber |-> 1, other |-> 1, payload |-> 1]
    /\ known = 1
    /\ fiberStream = <<>> /\ otherStream = <<>>
    /\ reads.fiber = <<>> /\ reads.other = <<>>
    /\ reads.payload = <<[Transactions |-> {1}]>>

\* C33: a hash that both sources observed in interval 1 and that a payload
\* read in interval 2 confirms contributes a difference to the list of one
\* of the two intervals (the first interval's list is empty: it read no
\* payload).
C33_ConfirmedLaterCounts == C33_Scenario => differences # <<>>

\* C33 amended: every hash that both sources observe and the ground truth
\* confirms within one interval of a cross-check run contributes a
\* difference to that interval's difference list.
C33_ConfirmedInIntervalCounts ==
    crossCheck /\ Processed =>
        /\ Confirmed \cap HashesOf(reads.fiber) \cap HashesOf(reads.other)
              \subseteq DOMAIN diffMap
        /\ Len(differences) >=
              Cardinality(Confirmed \cap HashesOf(reads.fiber) \cap HashesOf(reads.other))

\* the second interval read both observations of a hash and the payload
\* that confirms it
C33_Witness ==
    /\ crossCheck /\ Processed
    /\ i = 1
    /\ Confirmed \cap HashesOf(reads.fiber) \cap HashesOf(reads.other) # {}

\* C34: during the shutdown of a FiberSource no goroutine sends on a channel
\* that has been closed: no client goroutine is in, or enters, `ch <- item`
\* on a closed channel.
C34_NoSendOnClosedChannel ==
    /\ fiberSrc.panic # "send on closed channel"
    /\ \A c \in Streams : fiberSrc.ch[c] = "closed" => fiberSrc.sender[c].pc # "offering"

\* the accesses to Flush's err that a goroutine of Flush has ahead in its
\* current position: the assignment by PrepareBatch, the test after it
ErrAccess(g) ==
    CASE flusher[g] = "prepare" -> {"write"}
      [] flusher[g] = "check" -> {"read"}
      [] OTHER -> {}

\* C35: the two goroutines of Flush share no variable: at no time is one of
\* them about to write a variable that the other is about to read or write.
C35_FlushGoroutinesDisjoint ==
    ~(/\ ErrAccess("obs") # {}
      /\ ErrAccess("stats") # {}
      /\ "write" \in ErrAccess("obs") \cup ErrAccess("stats"))

\* C36: the Flush of a sink initialised with Init(Blocks) uses the two block
\* batches only and returns: once the block benchmark has handed the
\* statistics of an interval to its Clickhouse sink, Run does not stop in
\* the Flush that follows, and the transaction batches are never touched.
C36_FlushUsesInitTypeBatches ==
    blockBench.ch.ty = "blocks" =>
        /\ blockBench.ch.blockStatsBatch.rows # <<>> => blockBench.pc # "panic"
        /\ blockBench.ch.observationRowBatch = NilBatch
        /\ blockBench.ch.statsBatch = NilBatch

\* C37: with a configured sink every interval of 1..intervalCount gets its
\* RecordStats call and its Flush call: Run does not stop in the sink calls
\* of an interval before the last one.
C37_EveryIntervalRecorded == ~SinkIsNil /\ pc = "panic" => i + 1 = intervalCount

\* C38: a CsvSink that NewCsvSink returned without error has both writers
\* set: the Flush that follows RecordStats returns nil and the run goes on,
\* it does not stop on a missing writer.
C38_CsvSinkFlushSucceeds == sink = "csv" /\ stats # None => pc # "panic"

\* C39: blxrMap and fiberMap are not written while main iterates over them:
\* no step taken after main's read loop has started changes either map.
C39_NoWriteWhileIterating ==
    [][legacy.pc = "iterating" =>
          /\ legacy'.blxrMap = legacy.blxrMap
          /\ legacy'.fiberMap = legacy.fiberMap]_vars
=============================================================================
